---- MODULE Spec2Model ----
(***************************************************************************)
(* A model of solsolver (src/solsolver/src/main.rs): the card predicates,  *)
(* the board, the cascade (suck_readies_into_receptacles), the move        *)
(* generator (next_boards), the A* search of the pathfinding crate as main *)
(* calls it, and the race of the four search variants.                     *)
(*                                                                         *)
(* Sequences are 1-based here; a pile's last element is its exposed card.  *)
(* Pile numbers stored in a Move are 0-based, as in the source.            *)
(* Option<T> is a sequence of length 0 (None) or 1 (Some).                 *)
(***************************************************************************)
EXTENDS Integers, Sequences, FiniteSets, TLC

VARIABLES
    input,   \* what is read: the text on stdin (Parse), the two cards the
             \* card predicates are applied to (Compare); None in the
             \* specifications that start from the parsed deal
    pc,      \* where main is: "start", "parsed", "cascaded", "racing",
             \* "done", or "panic" after a panic!() or an unwrap() of None
    deal,    \* the board as Board::parse returned it
    board,   \* the board at hand
    window,  \* num_prev_moves_to_consider of this play-out
    nmoves,  \* the number of manual moves made
    cap,     \* the number of manual moves this play-out follows
    searches,\* the state of the astar call of each search variant
    result   \* the path main prints

vars == <<input, pc, deal, board, window, nmoves, cap, searches, result>>

----------------------------------------------------------------------------
(* Bounds of the model *)

\* the number of tableau piles of the modelled deals (the program has 11)
NumPiles == 3

\* the number of manual moves a play-out follows
MaxMoves == 4

\* the number of manual moves a long play-out follows
MaxLongMoves == 15

\* the number of manual moves the play-out of the cycle deal follows
MaxCycleMoves == 17

\* the number of tableau piles of the deals of the race
RaceNumPiles == 2

----------------------------------------------------------------------------
(* Program constants *)

NUM_SUITS == 4

OLD == 0

NUM_PREV_MOVES_TO_CONSIDERS == <<5, 10, 15, OLD>>

MAX_NUM_PREV_MOVES_TO_CONSIDER == 15

MINIMUM_AMT_OF_PROGRESS == 1

\* MajorValue and MinorValue wrap a u8
U8Range == 256

MajorFirst == 0

MajorLast == 21

----------------------------------------------------------------------------
(* Cards *)

Major(v) == [suit |-> "MAJ", value |-> v]

Minor(s, v) == [suit |-> s, value |-> v]

Suits == <<"SWO", "WAN", "CUP", "STA">>

IsMajor(c) == c.suit = "MAJ"

(* The comparisons add 1 to a u8.  When the sum leaves the u8 the outcome  *)
(* depends on the build: with overflow checks the program panics, without  *)
(* them the sum wraps to 0.  A comparison therefore yields                 *)
(* [value, overflow]: overflow says that a build with overflow checks      *)
(* panics in it, value is the result in a build without them (and in       *)
(* every build when overflow is FALSE).                                    *)

\* the outcome of a comparison in which no sum is computed
NoSum == [value |-> FALSE, overflow |-> FALSE]

\* is_next_card without the comparison of the suits
is_next_card_AnySuit(self, next_card) ==
    IF IsMajor(self) /\ IsMajor(next_card)
    THEN [value |-> (self.value + 1) % U8Range = next_card.value,
          overflow |-> self.value + 1 >= U8Range]
    ELSE IF ~IsMajor(self) /\ ~IsMajor(next_card)
         THEN [value |-> (self.value + 1) % U8Range = next_card.value,
               overflow |-> self.value + 1 >= U8Range]
         ELSE NoSum

\* lines 220-235; in the arm of two minors the sum of line 230 is computed
\* when the suits are equal (&&)
is_next_card(self, next_card) ==
    IF IsMajor(self) /\ IsMajor(next_card)
    THEN [value |-> (self.value + 1) % U8Range = next_card.value,
          overflow |-> self.value + 1 >= U8Range]
    ELSE IF ~IsMajor(self) /\ ~IsMajor(next_card) /\ self.suit = next_card.suit
         THEN [value |-> (self.value + 1) % U8Range = next_card.value,
               overflow |-> self.value + 1 >= U8Range]
         ELSE NoSum

\* is_prev_card with the two ranks exchanged
is_prev_card_Mirrored(self, prev_card) ==
    IF IsMajor(self) /\ IsMajor(prev_card)
    THEN [value |-> (self.value + 1) % U8Range = prev_card.value,
          overflow |-> self.value + 1 >= U8Range]
    ELSE IF ~IsMajor(self) /\ ~IsMajor(prev_card) /\ self.suit = prev_card.suit
         THEN [value |-> (self.value + 1) % U8Range = prev_card.value,
               overflow |-> self.value + 1 >= U8Range]
         ELSE NoSum

\* lines 237-254; in the arm of two minors the sum of line 249 is computed
\* when the suits are equal (&&)
is_prev_card(self, prev_card) ==
    IF IsMajor(self) /\ IsMajor(prev_card)
    THEN [value |-> self.value = (prev_card.value + 1) % U8Range,
          overflow |-> prev_card.value + 1 >= U8Range]
    ELSE IF ~IsMajor(self) /\ ~IsMajor(prev_card) /\ self.suit = prev_card.suit
         THEN [value |-> self.value = (prev_card.value + 1) % U8Range,
               overflow |-> prev_card.value + 1 >= U8Range]
         ELSE NoSum

\* lines 256-258: is_prev_card is called when is_next_card returned false,
\* so a build with overflow checks panics when is_next_card does, or when
\* is_next_card is false and is_prev_card panics
is_next_or_prev(self, other) ==
    LET next == is_next_card(self, other)
        prev == is_prev_card(self, other)
    IN  [value |-> next.value \/ prev.value,
         overflow |-> next.overflow \/ (~next.value /\ prev.overflow)]

----------------------------------------------------------------------------
(* Sequences *)

Last(s) == s[Len(s)]

Pop(s) == SubSeq(s, 1, Len(s) - 1)

Range(seq) == {seq[i] : i \in DOMAIN seq}

None == <<>>

Some(x) == <<x>>

----------------------------------------------------------------------------
(* Moves *)

BlockMinorPiles == [kind |-> "BlockMinorPiles", pile |-> 0, depth |-> 0]

PlayingArea(p, d) == [kind |-> "PlayingArea", pile |-> p, depth |-> d]

Move(f, t, c, n) == [from |-> f, to |-> t, card |-> c, num_sucks |-> n]

----------------------------------------------------------------------------
(* Board *)

\* Board::parse, after the lines are read: the piles as dealt, empty trump
\* foundations, the four aces, nothing held, no history
\* ParsedBoard with the minor collection piles left empty
ParsedBoard_NoAces(playing_area) ==
    [ major_lower_stack |-> <<>>,
      major_higher_stack |-> <<>>,
      minor_collection_piles |-> [k \in 1..NUM_SUITS |-> <<>>],
      minor_collection_blocked |-> None,
      playing_area |-> playing_area,
      last_n_moves |-> <<>> ]

ParsedBoard(playing_area) ==
    [ major_lower_stack |-> <<>>,
      major_higher_stack |-> <<>>,
      minor_collection_piles |-> [k \in 1..NUM_SUITS |-> <<Minor(Suits[k], 1)>>],
      minor_collection_blocked |-> None,
      playing_area |-> playing_area,
      last_n_moves |-> <<>> ]

\* the derived PartialEq/Hash of Board: every field but last_n_moves
Content(b) ==
    [ major_lower_stack |-> b.major_lower_stack,
      major_higher_stack |-> b.major_higher_stack,
      minor_collection_piles |-> b.minor_collection_piles,
      minor_collection_blocked |-> b.minor_collection_blocked,
      playing_area |-> b.playing_area ]

\* with_prev_move without the pop_back
with_prev_move_Uncapped(b, prev_move) ==
    [b EXCEPT !.last_n_moves = <<prev_move>> \o b.last_n_moves]

with_prev_move(b, prev_move) ==
    LET pushed == <<prev_move>> \o b.last_n_moves
    IN  [b EXCEPT !.last_n_moves =
            IF Len(pushed) > MAX_NUM_PREV_MOVES_TO_CONSIDER
            THEN Pop(pushed) ELSE pushed]

\* is_done that also wants the holding slot empty
is_done_SlotEmpty(b) ==
    /\ \A i \in 1..Len(b.playing_area) : b.playing_area[i] = <<>>
    /\ b.minor_collection_blocked = <<>>

is_done(b) == \A i \in 1..Len(b.playing_area) : b.playing_area[i] = <<>>

RECURSIVE SumLen(_, _)
SumLen(piles, i) ==
    IF i > Len(piles) THEN 0 ELSE Len(piles[i]) + SumLen(piles, i + 1)

\* num_cards_remaining without the term of the holding slot
num_cards_remaining_TableauOnly(b) == SumLen(b.playing_area, 1)

num_cards_remaining(b) ==
    SumLen(b.playing_area, 1)
    + (IF b.minor_collection_blocked /= None THEN 1 ELSE 0)

----------------------------------------------------------------------------
(* The cascade: Board::suck_readies_into_receptacles.                      *)
(* A cascade state is [b, sucked, changed, panic, overflow]: the board     *)
(* being mutated, the cards sucked so far, the pass's changed flag,        *)
(* whether an unwrap() of None was reached, and whether a comparison made  *)
(* so far left the u8.  Up to the first such comparison every build does   *)
(* the same; there a build with overflow checks panics, and b, sucked,     *)
(* changed and panic go on as in a build without them.                     *)

last_card_of_every_stack(b) ==
    [i \in 1..Len(b.playing_area) |->
        IF b.playing_area[i] = <<>> THEN None ELSE Some(Last(b.playing_area[i]))]

\* the comparisons made in the cascade state st, overflow saying whether
\* one of them left the u8
Compared(st, overflow) ==
    IF overflow THEN [st EXCEPT !.overflow = TRUE] ELSE st

\* SuckMinor with the loop ended after the first minor collection pile
RECURSIVE SuckMinor_FirstPileOnly(_, _, _, _)
SuckMinor_FirstPileOnly(st, i, last_card, k) ==
    IF st.panic \/ k > 1 THEN st
    ELSE LET pile == st.b.minor_collection_piles[k]
             next == is_next_card(Last(pile), last_card)
         IN
         IF pile = <<>> THEN [st EXCEPT !.panic = TRUE]
         ELSE IF next.value
         THEN IF st.b.playing_area[i] = <<>>
              THEN [Compared(st, next.overflow)
                       EXCEPT !.panic = TRUE]
              ELSE LET card == Last(st.b.playing_area[i]) IN
                   SuckMinor_FirstPileOnly(
                       [Compared(st, next.overflow)
                           EXCEPT !.b.playing_area[i] = Pop(@),
                                  !.b.minor_collection_piles[k] = Append(@, card),
                                  !.sucked = Append(@, card),
                                  !.changed = TRUE],
                       i, last_card, k + 1)
         ELSE SuckMinor_FirstPileOnly(Compared(st, next.overflow),
                  i, last_card, k + 1)

\* lines 381-392: the loop over the four minor collection piles, for the
\* tableau pile i whose exposed card was last_card when the pass began
RECURSIVE SuckMinor(_, _, _, _)
SuckMinor(st, i, last_card, k) ==
    IF st.panic \/ k > NUM_SUITS THEN st
    ELSE LET pile == st.b.minor_collection_piles[k]
             next == is_next_card(Last(pile), last_card)
         IN
         IF pile = <<>> THEN [st EXCEPT !.panic = TRUE]
         ELSE IF next.value
         THEN IF st.b.playing_area[i] = <<>>
              THEN [Compared(st, next.overflow)
                       EXCEPT !.panic = TRUE]
              ELSE LET card == Last(st.b.playing_area[i]) IN
                   SuckMinor(
                       [Compared(st, next.overflow)
                           EXCEPT !.b.playing_area[i] = Pop(@),
                                  !.b.minor_collection_piles[k] = Append(@, card),
                                  !.sucked = Append(@, card),
                                  !.changed = TRUE],
                       i, last_card, k + 1)
         ELSE SuckMinor(Compared(st, next.overflow),
                  i, last_card, k + 1)

\* lines 397-403 and 423-430: card against the top of major_lower_stack;
\* nothing is compared when the stack is empty (map on None)
OnLower(b, card) ==
    IF b.major_lower_stack = <<>>
    THEN NoSum
    ELSE is_next_card(Last(b.major_lower_stack), card)

\* lines 409-415 and 436-441: card against the top of major_higher_stack
OnHigher(b, card) ==
    IF b.major_higher_stack = <<>>
    THEN NoSum
    ELSE is_prev_card(Last(b.major_higher_stack), card)

\* SuckMajor with changed left unset after a push on major_higher_stack
SuckMajor_HigherUnflagged(st, i, last_card) ==
    IF st.panic THEN st
    ELSE LET lower == OnLower(st.b, last_card)
             higher == OnHigher(st.b, last_card)
         IN
    IF lower.value
            \/ (st.b.major_lower_stack = <<>> /\ last_card = Major(MajorFirst))
    THEN IF st.b.playing_area[i] = <<>>
         THEN [Compared(st, lower.overflow)
                  EXCEPT !.panic = TRUE]
         ELSE LET card == Last(st.b.playing_area[i]) IN
              [Compared(st, lower.overflow)
                  EXCEPT !.b.playing_area[i] = Pop(@),
                         !.b.major_lower_stack = Append(@, card),
                         !.sucked = Append(@, card),
                         !.changed = TRUE]
    ELSE IF higher.value
            \/ (st.b.major_higher_stack = <<>> /\ last_card = Major(MajorLast))
    THEN IF st.b.playing_area[i] = <<>>
         THEN [Compared(st, lower.overflow \/ higher.overflow)
                  EXCEPT !.panic = TRUE]
         ELSE LET card == Last(st.b.playing_area[i]) IN
              [Compared(st, lower.overflow \/ higher.overflow)
                  EXCEPT !.b.playing_area[i] = Pop(@),
                         !.b.major_higher_stack = Append(@, card),
                         !.sucked = Append(@, card)]
    ELSE Compared(st, lower.overflow \/ higher.overflow)

\* lines 396-420: the two major collection piles, for tableau pile i; the
\* else-if of line 409 is evaluated when the condition of line 397 is
\* false, so its comparison is made after the one of line 400
SuckMajor(st, i, last_card) ==
    IF st.panic THEN st
    ELSE LET lower == OnLower(st.b, last_card)
             higher == OnHigher(st.b, last_card)
         IN
    IF lower.value
            \/ (st.b.major_lower_stack = <<>> /\ last_card = Major(MajorFirst))
    THEN IF st.b.playing_area[i] = <<>>
         THEN [Compared(st, lower.overflow)
                  EXCEPT !.panic = TRUE]
         ELSE LET card == Last(st.b.playing_area[i]) IN
              [Compared(st, lower.overflow)
                  EXCEPT !.b.playing_area[i] = Pop(@),
                         !.b.major_lower_stack = Append(@, card),
                         !.sucked = Append(@, card),
                         !.changed = TRUE]
    ELSE IF higher.value
            \/ (st.b.major_higher_stack = <<>> /\ last_card = Major(MajorLast))
    THEN IF st.b.playing_area[i] = <<>>
         THEN [Compared(st, lower.overflow \/ higher.overflow)
                  EXCEPT !.panic = TRUE]
         ELSE LET card == Last(st.b.playing_area[i]) IN
              [Compared(st, lower.overflow \/ higher.overflow)
                  EXCEPT !.b.playing_area[i] = Pop(@),
                         !.b.major_higher_stack = Append(@, card),
                         !.sucked = Append(@, card),
                         !.changed = TRUE]
    ELSE Compared(st, lower.overflow \/ higher.overflow)

\* SuckPile with the minor collection piles tried whatever the slot holds
SuckPile_Unblocked(st, i, last_card) ==
    IF st.panic \/ last_card = None THEN st
    ELSE SuckMajor(SuckMinor(st, i, last_card[1], 1), i, last_card[1])

\* lines 374-420: the body of the loop over the tableau piles, for pile i
SuckPile(st, i, last_card) ==
    IF st.panic \/ last_card = None THEN st
    ELSE LET afterMinor ==
                 IF st.b.minor_collection_blocked = None
                 THEN SuckMinor(st, i, last_card[1], 1)
                 ELSE st
         IN  SuckMajor(afterMinor, i, last_card[1])

\* lines 371-421: the piles are visited in the order ord, each with the
\* exposed card it had when the pass began
RECURSIVE SuckPiles(_, _, _, _)
SuckPiles(st, last_cards, ord, j) ==
    IF j > Len(ord) THEN st
    ELSE SuckPiles(SuckPile(st, ord[j], last_cards[ord[j]]), last_cards, ord, j + 1)

\* SuckBlocked with the slot left occupied after the held card is pushed
SuckBlocked_SlotKept(st) ==
    IF st.panic \/ st.b.minor_collection_blocked = None THEN st
    ELSE LET blocking_card == st.b.minor_collection_blocked[1]
             lower == OnLower(st.b, blocking_card)
             higher == OnHigher(st.b, blocking_card)
         IN
         IF lower.value
         THEN [Compared(st, lower.overflow)
                  EXCEPT !.b.major_lower_stack = Append(@, blocking_card),
                         !.sucked = Append(@, blocking_card),
                         !.changed = TRUE]
         ELSE IF higher.value
         THEN [Compared(st, lower.overflow \/ higher.overflow)
                  EXCEPT !.b.major_higher_stack = Append(@, blocking_card),
                         !.sucked = Append(@, blocking_card),
                         !.changed = TRUE]
         ELSE Compared(st, lower.overflow \/ higher.overflow)

\* SuckBlocked with the held card checked against major_higher_stack only
SuckBlocked_HigherOnly(st) ==
    IF st.panic \/ st.b.minor_collection_blocked = None THEN st
    ELSE LET blocking_card == st.b.minor_collection_blocked[1]
             higher == OnHigher(st.b, blocking_card)
         IN
         IF higher.value
         THEN [Compared(st, higher.overflow)
                  EXCEPT !.b.major_higher_stack = Append(@, blocking_card),
                         !.b.minor_collection_blocked = None,
                         !.sucked = Append(@, blocking_card),
                         !.changed = TRUE]
         ELSE Compared(st, higher.overflow)

\* lines 423-446: the held card; the comparison of line 439 is made when
\* the one of line 428 is false
SuckBlocked(st) ==
    IF st.panic \/ st.b.minor_collection_blocked = None THEN st
    ELSE LET blocking_card == st.b.minor_collection_blocked[1]
             lower == OnLower(st.b, blocking_card)
             higher == OnHigher(st.b, blocking_card)
         IN
         IF lower.value
         THEN [Compared(st, lower.overflow)
                  EXCEPT !.b.major_lower_stack = Append(@, blocking_card),
                         !.b.minor_collection_blocked = None,
                         !.sucked = Append(@, blocking_card),
                         !.changed = TRUE]
         ELSE IF higher.value
         THEN [Compared(st, lower.overflow \/ higher.overflow)
                  EXCEPT !.b.major_higher_stack = Append(@, blocking_card),
                         !.b.minor_collection_blocked = None,
                         !.sucked = Append(@, blocking_card),
                         !.changed = TRUE]
         ELSE Compared(st, lower.overflow \/ higher.overflow)

\* one iteration of the while loop (lines 369-446)
SuckPass(st, ord) ==
    SuckBlocked(SuckPiles([st EXCEPT !.changed = FALSE],
                          last_card_of_every_stack(st.b), ord, 1))

\* SuckLoop with a single pass in place of the loop
SuckLoop_OnePass(st, ord) == SuckPass(st, ord)

\* lines 367-447: while changed
RECURSIVE SuckLoop(_, _)
SuckLoop(st, ord) ==
    LET next == SuckPass(st, ord) IN
    IF next.panic \/ ~next.changed THEN next ELSE SuckLoop(next, ord)

\* the cascade state at line 365
CascadeStart(b) ==
    [b |-> b, sucked |-> <<>>, changed |-> TRUE, panic |-> FALSE,
     overflow |-> FALSE]

\* the cascade with the tableau piles scanned in the order ord
SuckInOrder(b, ord) == SuckLoop(CascadeStart(b), ord)

\* the order of the source: playing_area index 0, 1, ..
ScanOrder(b) == [i \in 1..Len(b.playing_area) |-> i]

suck_readies_into_receptacles(b) == SuckInOrder(b, ScanOrder(b))

----------------------------------------------------------------------------
(* The move generator: Board::next_boards.  It yields [boards, overflow]:  *)
(* boards is the sequence of entries [board, move, panic, overflow] in     *)
(* the order the source pushes them, where panic records an unwrap() of    *)
(* None in the entry's cascade; overflow says that a comparison of the     *)
(* call (of line 519 or 545, or of a cascade) left the u8, where a build   *)
(* with overflow checks panics and boards is what a build without them     *)
(* returns.                                                                *)

RECURSIVE SumSucks(_, _)
SumSucks(moves, n) ==
    IF n = 0 THEN 0 ELSE moves[n].num_sucks + SumSucks(moves, n - 1)

\* Stagnant with the sucks of the whole history summed, not of the window
Stagnant_WholeHistory(b, num_prev_moves_to_consider) ==
    /\ num_prev_moves_to_consider /= OLD
    /\ Len(b.last_n_moves) >= num_prev_moves_to_consider
    /\ SumSucks(b.last_n_moves, Len(b.last_n_moves)) <= MINIMUM_AMT_OF_PROGRESS

\* Stagnant without the test for OLD
Stagnant_OldToo(b, num_prev_moves_to_consider) ==
    /\ Len(b.last_n_moves) >= num_prev_moves_to_consider
    /\ SumSucks(b.last_n_moves, num_prev_moves_to_consider) <= MINIMUM_AMT_OF_PROGRESS

\* lines 467-478: the cutoff on the last num_prev_moves_to_consider moves
Stagnant(b, num_prev_moves_to_consider) ==
    /\ num_prev_moves_to_consider /= OLD
    /\ Len(b.last_n_moves) >= num_prev_moves_to_consider
    /\ SumSucks(b.last_n_moves, num_prev_moves_to_consider) <= MINIMUM_AMT_OF_PROGRESS

\* lines 494-496: the board after the hold, before its cascade
HoldManual(b, src) ==
    [b EXCEPT !.playing_area[src] = Pop(@),
              !.minor_collection_blocked = Some(Last(b.playing_area[src]))]

\* lines 520-522: the board after the pile-to-pile move, before its cascade
PileManual(b, src, dst) ==
    [b EXCEPT !.playing_area[src] = Pop(@),
              !.playing_area[dst] = Append(@, Last(b.playing_area[src]))]

\* lines 546-548: the board after the release, before its cascade
ReleaseManual(b, dst) ==
    [b EXCEPT !.minor_collection_blocked = None,
              !.playing_area[dst] = Append(@, b.minor_collection_blocked[1])]

\* Entry with the cards sucked by the cascade left out of the Move
Entry_NoSuckCount(manual, from, to, card) ==
    LET r == suck_readies_into_receptacles(manual)
        moov == Move(from, to, card, 0)
    IN  [board |-> with_prev_move(r.b, moov), move |-> moov, panic |-> r.panic,
         overflow |-> r.overflow]

\* lines 497-507, 523-536, 549-559: cascade, build the Move, record it
Entry(manual, from, to, card) ==
    LET r == suck_readies_into_receptacles(manual)
        moov == Move(from, to, card, Len(r.sucked))
    IN  [board |-> with_prev_move(r.b, moov), move |-> moov, panic |-> r.panic,
         overflow |-> r.overflow]

HoldEntry(b, src) ==
    Entry(HoldManual(b, src),
          PlayingArea(src - 1, Len(b.playing_area[src]) - 1),
          BlockMinorPiles,
          Last(b.playing_area[src]))

PileEntry(b, src, dst) ==
    Entry(PileManual(b, src, dst),
          PlayingArea(src - 1, Len(b.playing_area[src]) - 1),
          PlayingArea(dst - 1, Len(b.playing_area[dst])),
          Last(b.playing_area[src]))

ReleaseEntry(b, dst) ==
    Entry(ReleaseManual(b, dst),
          BlockMinorPiles,
          PlayingArea(dst - 1, Len(b.playing_area[dst])),
          b.minor_collection_blocked[1])

\* lines 519 and 545: the destination is empty or its exposed card is
\* adjacent; nothing is compared when it is empty
Accepts(dst_stack, card) ==
    IF dst_stack = <<>>
    THEN [value |-> TRUE, overflow |-> FALSE]
    ELSE is_next_or_prev(Last(dst_stack), card)

\* line 463
NoBoards == [boards |-> <<>>, overflow |-> FALSE]

\* boards.push (lines 507, 536, 559)
Push(acc, entry) ==
    [boards |-> Append(acc.boards, entry),
     overflow |-> acc.overflow \/ entry.overflow]

\* the test of line 519 or 545 was made, then the entry pushed if it held
Tried(acc, accepts, entry) ==
    IF accepts.value
    THEN Push([acc EXCEPT !.overflow = @ \/ accepts.overflow], entry)
    ELSE [acc EXCEPT !.overflow = @ \/ accepts.overflow]

\* DstLoop without the filter of line 516 (a lone card to an empty pile)
RECURSIVE DstLoop_Unfiltered(_, _, _, _)
DstLoop_Unfiltered(b, src, dst, acc) ==
    IF dst > Len(b.playing_area) THEN acc
    ELSE IF src = dst
    THEN DstLoop_Unfiltered(b, src, dst + 1, acc)
    ELSE DstLoop_Unfiltered(b, src, dst + 1,
                 Tried(acc, Accepts(b.playing_area[dst], Last(b.playing_area[src])),
                       PileEntry(b, src, dst)))

\* lines 510-538: the loop over the destination piles of source pile src
RECURSIVE DstLoop(_, _, _, _)
DstLoop(b, src, dst, acc) ==
    IF dst > Len(b.playing_area) THEN acc
    ELSE IF src = dst
    THEN DstLoop(b, src, dst + 1, acc)
    ELSE IF Len(b.playing_area[src]) = 1 /\ b.playing_area[dst] = <<>>
    THEN DstLoop(b, src, dst + 1, acc)
    ELSE DstLoop(b, src, dst + 1,
                 Tried(acc, Accepts(b.playing_area[dst], Last(b.playing_area[src])),
                       PileEntry(b, src, dst)))

\* SrcLoop with the hold made for a one-card pile too
RECURSIVE SrcLoop_HoldLone(_, _, _)
SrcLoop_HoldLone(b, src, acc) ==
    IF src > Len(b.playing_area) THEN acc
    ELSE IF b.playing_area[src] = <<>>
    THEN SrcLoop_HoldLone(b, src + 1, acc)
    ELSE IF b.minor_collection_blocked = None
    THEN SrcLoop_HoldLone(b, src + 1,
                          DstLoop(b, src, 1, Push(acc, HoldEntry(b, src))))
    ELSE SrcLoop_HoldLone(b, src + 1, DstLoop(b, src, 1, acc))

\* lines 480-539: the loop over the source piles.  The continue of line 491
\* leaves the whole iteration of a one-card pile while nothing is held.
RECURSIVE SrcLoop(_, _, _)
SrcLoop(b, src, acc) ==
    IF src > Len(b.playing_area) THEN acc
    ELSE IF b.playing_area[src] = <<>>
    THEN SrcLoop(b, src + 1, acc)
    ELSE IF b.minor_collection_blocked = None
    THEN IF Len(b.playing_area[src]) = 1
         THEN SrcLoop(b, src + 1, acc)
         ELSE SrcLoop(b, src + 1,
                      DstLoop(b, src, 1, Push(acc, HoldEntry(b, src))))
    ELSE SrcLoop(b, src + 1, DstLoop(b, src, 1, acc))

\* lines 542-562: unblock the minor collection piles
RECURSIVE ReleaseLoop(_, _, _)
ReleaseLoop(b, dst, acc) ==
    IF b.minor_collection_blocked = None \/ dst > Len(b.playing_area) THEN acc
    ELSE ReleaseLoop(b, dst + 1,
                     Tried(acc, Accepts(b.playing_area[dst], b.minor_collection_blocked[1]),
                           ReleaseEntry(b, dst)))

next_boards(b, num_prev_moves_to_consider) ==
    IF Stagnant(b, num_prev_moves_to_consider) THEN NoBoards
    ELSE ReleaseLoop(b, 1, SrcLoop(b, 1, NoBoards))

----------------------------------------------------------------------------
(* The deals of the model.  A scenario is a deck of a few cards and a run  *)
(* of trumps; its deals are the ways to cut the deck into NumPiles piles   *)
(* (in deck order, empty piles allowed), with the run dealt on top of the  *)
(* first pile.                                                             *)

RECURSIVE Asc(_, _)
Asc(lo, hi) == IF lo > hi THEN <<>> ELSE <<Major(lo)>> \o Asc(lo + 1, hi)

RECURSIVE Desc(_, _)
Desc(hi, lo) == IF lo > hi THEN <<>> ELSE <<Major(hi)>> \o Desc(hi - 1, lo)

RECURSIVE Splits(_, _)
Splits(deck, p) ==
    IF p = 1 THEN {<<deck>>}
    ELSE UNION {{<<SubSeq(deck, 1, i)>> \o rest :
                    rest \in Splits(SubSeq(deck, i + 1, Len(deck)), p - 1)} :
                i \in 0..Len(deck)}

\* Scenarios 1 and 2 of the specification: 3 of Swords, then 2 of Swords
ScenarioCascade == [deck |-> <<Minor("SWO", 3), Minor("SWO", 2)>>, run |-> <<>>]

\* Scenario 3 of the specification: 2 of Swords, then 5 of Wands
ScenarioOneMove == [deck |-> <<Minor("SWO", 2), Minor("WAN", 5)>>, run |-> <<>>]

\* the trumps 0..6 and 21..10 advance in the initial cascade; 7, 8 and 9 and
\* two adjacent Wands that never advance are left to play
ScenarioTrumps ==
    [deck |-> <<Major(9), Minor("WAN", 6), Major(7), Major(8), Minor("WAN", 5)>>,
     run |-> Desc(6, 0) \o Asc(10, 21)]

\* three adjacent Wands that never advance
ScenarioWands ==
    [deck |-> <<Minor("WAN", 6), Minor("WAN", 7), Minor("WAN", 5)>>, run |-> <<>>]

Scenarios == {ScenarioCascade, ScenarioOneMove, ScenarioTrumps, ScenarioWands}

CutDeals(sc) ==
    {[pa EXCEPT ![1] = @ \o sc.run] : pa \in Splits(sc.deck, NumPiles)}

\* a deal in which the last two trumps, 7 and 8, can be uncovered in one
\* cascade: the trumps 0..6 and 21..9 advance in the initial cascade; each of
\* 7 and 8 lies under a 2 that cannot advance while a card is held
MeetPiles ==
    << <<Major(7), Minor("SWO", 2), Minor("WAN", 6)>> \o Desc(6, 0) \o Asc(9, 21),
       <<Major(8), Minor("CUP", 2), Minor("WAN", 5)>> >>

MeetDeal == [i \in 1..NumPiles |-> IF i <= Len(MeetPiles) THEN MeetPiles[i] ELSE <<>>]

\* a deal in which a held trump advances onto either trump foundation: the
\* trumps 0..9 and 21..16 advance in the initial cascade; holding 14 uncovers
\* 15, which major_higher_stack takes, and holding 11 uncovers 10, which
\* major_lower_stack takes
DescendPiles ==
    << <<Major(12), Minor("CUP", 2), Major(15), Major(14)>>
          \o Desc(9, 0) \o Asc(16, 21),
       <<Major(13), Major(10), Major(11)>> >>

DescendDeal ==
    [i \in 1..NumPiles |-> IF i <= Len(DescendPiles) THEN DescendPiles[i] ELSE <<>>]

Deals == UNION {CutDeals(sc) : sc \in Scenarios} \cup {MeetDeal, DescendDeal}

\* one deal for long play-outs: a pair of adjacent cards that can be held and
\* released for ever, two covered trumps that advance once uncovered, and
\* one lone card on every further pile, so that no pile is empty
LongPiles ==
    << <<Minor("WAN", 5), Minor("WAN", 6)>> \o Desc(6, 0) \o Asc(10, 21),
       <<Major(8), Major(7), Minor("SWO", 12)>>,
       <<Major(9), Minor("CUP", 4)>> >>

LongDeal ==
    [i \in 1..NumPiles |->
        IF i <= Len(LongPiles) THEN LongPiles[i] ELSE <<Minor("STA", 2 * i + 1)>>]

\* a deal with one move at every board: the 6 of Wands is held and released
\* onto the 5 of Wands in turn, and the lone cards of the other piles
\* neither move nor advance
CycleDeal ==
    [i \in 1..NumPiles |->
        IF i = 1 THEN <<Minor("WAN", 5), Minor("WAN", 6)>>
        ELSE <<Minor("STA", 2 * i + 1)>>]

LongDeals == {LongDeal, CycleDeal} \cup CutDeals(ScenarioOneMove)

Windows == {NUM_PREV_MOVES_TO_CONSIDERS[k] : k \in DOMAIN NUM_PREV_MOVES_TO_CONSIDERS}

----------------------------------------------------------------------------
(* Play-outs: main parses the deal and cascades it (lines 571-572); then   *)
(* any entry the move generator returns for the board may be followed.     *)

Init ==
    /\ input = None
    /\ pc = "parsed"
    /\ \E pa \in Deals : deal = ParsedBoard(pa)
    /\ board = deal
    /\ window \in Windows
    /\ nmoves = 0
    /\ cap = MaxMoves
    /\ searches = <<>>
    /\ result = None

InitLong ==
    /\ input = None
    /\ pc = "parsed"
    /\ \E pa \in LongDeals : deal = ParsedBoard(pa)
    /\ board = deal
    /\ window \in Windows
    /\ nmoves = 0
    /\ cap = IF deal = ParsedBoard(CycleDeal) THEN MaxCycleMoves ELSE MaxLongMoves
    /\ searches = <<>>
    /\ result = None

\* the builds that differ from a build without overflow checks on a call
\* in which a comparison left the u8 (overflow): TRUE stands for a build
\* with overflow checks, which panics there
Checked(overflow) == IF overflow THEN BOOLEAN ELSE {FALSE}

\* main, line 572; a call that panics does not return, and board keeps
\* the value it had unless the panic is the unwrap() of the cascade itself
InitialCascade ==
    /\ pc = "parsed"
    /\ LET r == suck_readies_into_receptacles(board) IN
         \E checked \in Checked(r.overflow) :
            IF checked
            THEN pc' = "panic" /\ board' = board
            ELSE /\ board' = r.b
                 /\ pc' = IF r.panic THEN "panic" ELSE "cascaded"
    /\ UNCHANGED <<input, deal, window, nmoves, cap, searches, result>>

Follow(kindFrom, kindTo) ==
    /\ pc = "cascaded"
    /\ nmoves < cap
    /\ \E generated \in {next_boards(board, window)} :
         \E checked \in Checked(generated.overflow) :
            IF checked
            THEN pc' = "panic" /\ board' = board
            ELSE \E e \in Range(generated.boards) :
                    /\ e.move.from.kind = kindFrom
                    /\ e.move.to.kind = kindTo
                    /\ board' = e.board
                    /\ pc' = IF e.panic THEN "panic" ELSE "cascaded"
    /\ nmoves' = nmoves + 1
    /\ UNCHANGED <<input, deal, window, cap, searches, result>>

Hold == Follow("PlayingArea", "BlockMinorPiles")

PileToPile == Follow("PlayingArea", "PlayingArea")

Release == Follow("BlockMinorPiles", "PlayingArea")

Next == InitialCascade \/ Hold \/ PileToPile \/ Release

Spec == Init /\ [][Next]_vars

SpecLong == InitLong /\ [][Next]_vars

----------------------------------------------------------------------------
(* The search: pathfinding's astar as main calls it (lines 578-587), with  *)
(* nodes (Board, Option<Move>), every edge of cost 0, the heuristic        *)
(* num_cards_remaining and the goal test is_done.  Two nodes are the same  *)
(* node when their boards agree on all but last_n_moves (the derived Eq    *)
(* and Hash of Board ignore it) and their moves are equal.  The frontier   *)
(* is a binary heap of holders; which of several greatest holders it pops  *)
(* depends on its layout, and is left open here: the frontier is the set   *)
(* of its holders, and any greatest one may be popped.  Indices are        *)
(* 0-based as in the source, the node of index i being parents[i + 1].     *)

SmallestCostHolder(estimated_cost, cost, index) ==
    [estimated_cost |-> estimated_cost, cost |-> cost, index |-> index]

\* a <= b in the order of the holders: a smaller estimated cost is greater,
\* equal estimated costs are ordered by cost
HolderLe(a, b) ==
    \/ a.estimated_cost > b.estimated_cost
    \/ a.estimated_cost = b.estimated_cost /\ a.cost <= b.cost

\* the holders BinaryHeap::pop may return
Greatest(to_see) == {g \in to_see : \A o \in to_see : HolderLe(o, g)}

Node(b, m) == [board |-> b, move |-> m]

NodeKey(node) == <<Content(node.board), node.move>>

NoParent == -1

\* the state of an astar call: parents is the index map of the nodes seen
\* (with the index of the node each was first reached from), to_see the
\* frontier; status is "running", "found", "exhausted" or "panic"
AstarStart(start) ==
    [parents |-> <<[node |-> start, parent |-> NoParent]>>,
     to_see |-> {SmallestCostHolder(0, 0, 0)},
     status |-> "running",
     path |-> <<>>]

RECURSIVE reverse_path(_, _)
reverse_path(parents, index) ==
    IF index = NoParent THEN <<>>
    ELSE Append(reverse_path(parents, parents[index + 1].parent),
                parents[index + 1].node)

\* AstarInsert with the node inserted last recorded as the parent
RECURSIVE AstarInsert_LastParent(_, _, _, _)
AstarInsert_LastParent(st, index, entries, k) ==
    IF k > Len(entries) THEN st
    ELSE LET e == entries[k]
             successor == Node(e.board, Some(e.move))
             seen == \E i \in DOMAIN st.parents :
                         NodeKey(st.parents[i].node) = NodeKey(successor)
             n == Len(st.parents)
             h == num_cards_remaining(e.board)
         IN  IF seen THEN AstarInsert_LastParent(st, index, entries, k + 1)
             ELSE AstarInsert_LastParent(
                     [st EXCEPT
                        !.parents = Append(@, [node |-> successor, parent |-> n - 1]),
                        !.to_see = @ \cup {SmallestCostHolder(0 + h, 0, n)}],
                     index, entries, k + 1)

\* the successors of the node at index, from entry k on: a node not seen
\* yet is recorded and pushed; a node seen already has cost 0, which no new
\* cost is below, and is skipped
RECURSIVE AstarInsert(_, _, _, _)
AstarInsert(st, index, entries, k) ==
    IF k > Len(entries) THEN st
    ELSE LET e == entries[k]
             successor == Node(e.board, Some(e.move))
             seen == \E i \in DOMAIN st.parents :
                         NodeKey(st.parents[i].node) = NodeKey(successor)
             n == Len(st.parents)
             h == num_cards_remaining(e.board)
         IN  IF seen THEN AstarInsert(st, index, entries, k + 1)
             ELSE AstarInsert(
                     [st EXCEPT
                        !.parents = Append(@, [node |-> successor, parent |-> index]),
                        !.to_see = @ \cup {SmallestCostHolder(0 + h, 0, n)}],
                     index, entries, k + 1)

\* AstarPop that leaves the popped holder in the frontier
AstarPop_KeepPopped(st, n, popped) ==
    LET index == popped.index
        node == st.parents[index + 1].node
        generated == next_boards(node.board, n)
    IN  IF is_done(node.board)
        THEN {[st EXCEPT !.status = "found",
                         !.path = reverse_path(st.parents, index)]}
        ELSE {IF checked \/ \E e \in Range(generated.boards) : e.panic
              THEN [st EXCEPT !.status = "panic"]
              ELSE AstarInsert(st, index, generated.boards, 1) :
                 checked \in Checked(generated.overflow)}

\* one iteration of astar's loop under window n that pops holder popped:
\* the search ends at a goal; otherwise the node's successors are inserted.
\* The states the iteration can leave: one, or two when a comparison of
\* next_boards left the u8 (the call panics in a build with overflow
\* checks and returns its boards in a build without them)
AstarPop(st, n, popped) ==
    LET index == popped.index
        node == st.parents[index + 1].node
        generated == next_boards(node.board, n)
        rest == [st EXCEPT !.to_see = @ \ {popped}]
    IN  IF is_done(node.board)
        THEN {[rest EXCEPT !.status = "found",
                           !.path = reverse_path(st.parents, index)]}
        ELSE {IF checked \/ \E e \in Range(generated.boards) : e.panic
              THEN [rest EXCEPT !.status = "panic"]
              ELSE AstarInsert(rest, index, generated.boards, 1) :
                 checked \in Checked(generated.overflow)}

----------------------------------------------------------------------------
(* The race of main (lines 575-591): one astar call per entry of           *)
(* NUM_PREV_MOVES_TO_CONSIDERS, run in parallel on copies of the cascaded  *)
(* board; the calls share nothing and their iterations interleave freely.  *)
(* When all have returned, min_by_key takes a shortest of the paths found  *)
(* and unwrap() panics when there is none.                                 *)

Variants == DOMAIN NUM_PREV_MOVES_TO_CONSIDERS

\* the deals of the race, each on the first pile: one that the initial
\* cascade clears, one that has no move, one that ends with a card held,
\* and one with a shorter and a longer solution
RacePiles ==
    { <<Minor("SWO", 3), Minor("SWO", 2)>>,
      <<Minor("WAN", 5)>>,
      <<Major(0), Minor("WAN", 6)>>,
      <<Minor("SWO", 2), Major(0), Major(1), Minor("SWO", 3)>> }

\* Scenario 3 of the specification, on the first pile
Scenario3Pile == <<Minor("SWO", 2), Minor("WAN", 5)>>

\* Scenario 2 of the specification on the first two piles, and its mirror
\* image: the card that advances second lies at the lower or at the higher
\* pile index
CrossDeals ==
    { << <<Minor("SWO", 3)>>, <<Minor("SWO", 2)>> >>,
      << <<Minor("SWO", 2)>>, <<Minor("SWO", 3)>> >> }

RaceDeals ==
    {[i \in 1..RaceNumPiles |-> IF i = 1 THEN pile ELSE <<>>] :
        pile \in RacePiles \cup {Scenario3Pile}}
    \cup {[i \in 1..RaceNumPiles |-> IF i <= Len(d) THEN d[i] ELSE <<>>] :
            d \in CrossDeals}

InitRace ==
    /\ input = None
    /\ pc = "parsed"
    /\ \E pa \in RaceDeals : deal = ParsedBoard(pa)
    /\ board = deal
    /\ window = OLD
    /\ nmoves = 0
    /\ cap = 0
    /\ searches = <<>>
    /\ result = None

StartRace ==
    /\ pc = "cascaded"
    /\ pc' = "racing"
    /\ searches' = [k \in Variants |-> AstarStart(Node(board, None))]
    /\ UNCHANGED <<input, deal, board, window, nmoves, cap, result>>

\* one iteration of the loop of variant k's astar call
SearchStep(k) ==
    /\ pc = "racing"
    /\ searches[k].status = "running"
    /\ \/ /\ searches[k].to_see = {}
          /\ searches' = [searches EXCEPT ![k].status = "exhausted"]
       \/ \E popped \in Greatest(searches[k].to_see) :
             \E next \in AstarPop(searches[k], NUM_PREV_MOVES_TO_CONSIDERS[k], popped) :
                searches' = [searches EXCEPT ![k] = next]
    /\ UNCHANGED <<input, pc, deal, board, window, nmoves, cap, result>>

Succeeded == {k \in Variants : searches[k].status = "found"}

\* Shortest without the comparison of lengths: any path found
Shortest_Any(found) == found

\* min_by_key(|path| path.len()): a path no other path found is shorter than
Shortest(found) ==
    {k \in found : \A o \in found : Len(searches[k].path) <= Len(searches[o].path)}

\* Reduce taking the result as soon as one variant has succeeded
Reduce_FirstSuccess ==
    /\ pc = "racing"
    /\ \/ \A k \in Variants : searches[k].status /= "running"
       \/ \E k \in Variants : searches[k].status = "found"
    /\ IF Succeeded = {} \/ \E k \in Variants : searches[k].status = "panic"
       THEN pc' = "panic" /\ result' = None
       ELSE /\ pc' = "done"
            /\ \E k \in Shortest(Succeeded) : result' = Some(searches[k].path)
    /\ UNCHANGED <<input, deal, board, window, nmoves, cap, searches>>

Reduce ==
    /\ pc = "racing"
    /\ \A k \in Variants : searches[k].status /= "running"
    /\ IF Succeeded = {} \/ \E k \in Variants : searches[k].status = "panic"
       THEN pc' = "panic" /\ result' = None
       ELSE /\ pc' = "done"
            /\ \E k \in Shortest(Succeeded) : result' = Some(searches[k].path)
    /\ UNCHANGED <<input, deal, board, window, nmoves, cap, searches>>

NextRace ==
    \/ InitialCascade
    \/ StartRace
    \/ \E k \in Variants : SearchStep(k)
    \/ Reduce

SpecRace == InitRace /\ [][NextRace]_vars

\* the race with its scheduling: main runs on, and every astar call of the
\* parallel iterator that can make an iteration eventually makes one.  This
\* is weak fairness of InitialCascade, StartRace, every SearchStep(k) and
\* Reduce; for InitialCascade and SearchStep(k) it is written out, the
\* action being enabled exactly when its guard holds: an initial cascade
\* leaves "parsed", and an iteration of variant k changes searches[k]
SpecRaceFair ==
    /\ SpecRace
    /\ \/ []<>(pc /= "parsed")
       \/ []<><<pc = "parsed" /\ pc' /= "parsed">>_vars
    /\ WF_vars(StartRace)
    /\ \A k \in Variants :
          \/ []<>(~(pc = "racing" /\ searches[k].status = "running"))
          \/ []<><<pc = "racing" /\ searches'[k] /= searches[k]>>_vars
    /\ WF_vars(Reduce)

----------------------------------------------------------------------------
(* Parsing (lines 114-132, 139-142, 175-185, 206-218, 308-353).  A text is *)
(* a sequence of characters, each a string: the character itself, or the  *)
(* name of its code point ("U+00A0") where the character cannot be         *)
(* written.                                                                *)

\* the tableau piles of the parsed deals (the program has 11)
ParseNumPiles == 2

\* the greatest number of lines of an input
MaxLines == 3

RECURSIVE Split(_, _)
\* str::split(ch): the pieces between the occurrences of ch
Split(s, ch) ==
    IF \A i \in DOMAIN s : s[i] /= ch THEN <<s>>
    ELSE LET i == CHOOSE i \in DOMAIN s :
                     s[i] = ch /\ \A j \in 1..(i - 1) : s[j] /= ch
         IN  <<SubSeq(s, 1, i - 1)>> \o Split(SubSeq(s, i + 1, Len(s)), ch)

\* str::split_terminator(ch): split without a trailing empty piece
split_terminator(s, ch) ==
    LET pieces == Split(s, ch)
    IN  IF Last(pieces) = <<>> THEN Pop(pieces) ELSE pieces

\* str::lines: the pieces ended by a line feed, without the carriage
\* return of a line ending "\r\n"; a last piece not ended by a line feed
\* is a line too, unless it is empty
lines(s) ==
    LET pieces == Split(s, "\n")
        n == Len(pieces)
        ended == [k \in 1..(n - 1) |->
                    IF pieces[k] /= <<>> /\ Last(pieces[k]) = "\r"
                    THEN Pop(pieces[k]) ELSE pieces[k]]
    IN  IF pieces[n] = <<>> THEN ended ELSE Append(ended, pieces[n])

\* char::is_whitespace, which str::trim strips by: the code points with the
\* Unicode property White_Space
Whitespace ==
    { "\t", "\n", "U+000B", "\f", "\r", " ", "U+0085", "U+00A0", "U+1680",
      "U+2000", "U+2001", "U+2002", "U+2003", "U+2004", "U+2005", "U+2006",
      "U+2007", "U+2008", "U+2009", "U+200A", "U+2028", "U+2029", "U+202F",
      "U+205F", "U+3000" }

RECURSIVE trim_start(_)
trim_start(s) ==
    IF s /= <<>> /\ s[1] \in Whitespace THEN trim_start(Tail(s)) ELSE s

RECURSIVE trim_end(_)
trim_end(s) ==
    IF s /= <<>> /\ Last(s) \in Whitespace THEN trim_end(Pop(s)) ELSE s

trim(s) == trim_end(trim_start(s))

Digits == <<"0", "1", "2", "3", "4", "5", "6", "7", "8", "9">>

IsDigit(c) == \E i \in DOMAIN Digits : Digits[i] = c

DigitValue(c) == (CHOOSE i \in DOMAIN Digits : Digits[i] = c) - 1

RECURSIVE DecimalValue(_, _)
DecimalValue(s, acc) ==
    IF s = <<>> THEN acc
    ELSE DecimalValue(Tail(s), 10 * acc + DigitValue(s[1]))

\* <u8 as FromStr>::from_str: an optional plus sign, then decimal digits of
\* a value below 256; None is Err
ParseU8(s) ==
    LET digits == IF Len(s) > 1 /\ s[1] = "+" THEN Tail(s) ELSE s
    IN  IF digits = <<>> \/ \E i \in DOMAIN digits : ~IsDigit(digits[i])
        THEN None
        ELSE IF DecimalValue(digits, 0) >= U8Range THEN None
             ELSE Some(DecimalValue(digits, 0))

\* the match of MinorValue::parse; None is its panic
MinorValueParse(s) ==
    CASE s = <<"A">> -> Some(1)
      [] s = <<"2">> -> Some(2)
      [] s = <<"3">> -> Some(3)
      [] s = <<"4">> -> Some(4)
      [] s = <<"5">> -> Some(5)
      [] s = <<"6">> -> Some(6)
      [] s = <<"7">> -> Some(7)
      [] s = <<"8">> -> Some(8)
      [] s = <<"9">> -> Some(9)
      [] s = <<"1", "0">> -> Some(10)
      [] s = <<"J">> -> Some(11)
      [] s = <<"Q">> -> Some(12)
      [] s = <<"K">> -> Some(13)
      [] OTHER -> None

\* MajorValue::parse: the unwrap of the u8 parsed; None is its panic
MajorValueParse(s) == ParseU8(s)

MAJ == <<"M", "A", "J">>

\* the match of Suit::parse; None is its panic
SuitParse(s) ==
    CASE s = <<"S", "W", "O">> -> Some("SWO")
      [] s = <<"W", "A", "N">> -> Some("WAN")
      [] s = <<"C", "U", "P">> -> Some("CUP")
      [] s = <<"S", "T", "A">> -> Some("STA")
      [] OTHER -> None

\* Card::parse: the first two pieces between underscores are the value and
\* the suit, further pieces are not looked at; None is a panic
CardParse(s) ==
    LET split == Split(s, "_")
    IN  IF Len(split) < 2 THEN None
        ELSE LET value == split[1]
                 suit == split[2]
             IN  IF suit = MAJ
                 THEN IF MajorValueParse(value) = None THEN None
                      ELSE Some(Major(MajorValueParse(value)[1]))
                 ELSE IF SuitParse(suit) = None \/ MinorValueParse(value) = None
                      THEN None
                      ELSE Some(Minor(SuitParse(suit)[1], MinorValueParse(value)[1]))

\* the inner loop of Board::parse: the cards of one line, in order
LineTokens(line) == split_terminator(trim(line), ",")

LinePanics(line) ==
    \E i \in DOMAIN LineTokens(line) : CardParse(LineTokens(line)[i]) = None

LineCards(line) ==
    [i \in DOMAIN LineTokens(line) |-> CardParse(LineTokens(line)[i])[1]]

\* BoardParse with the blank lines left out before the zip
BoardParse_SkipBlank(s, n) ==
    LET NonBlank(l) == trim(l) /= <<>>
        ls == SelectSeq(lines(s), NonBlank)
        zipped == 1..(IF Len(ls) < n THEN Len(ls) ELSE n)
    IN  IF \E k \in zipped : LinePanics(ls[k])
        THEN [panic |-> TRUE, board |-> None]
        ELSE [panic |-> FALSE,
              board |-> ParsedBoard([k \in 1..n |->
                            IF k \in zipped THEN LineCards(ls[k]) ELSE <<>>])]

\* Board::parse on n piles: the lines zipped with the piles, so the k-th
\* line fills the k-th pile and the lines after the n-th are not looked at
BoardParse(s, n) ==
    LET ls == lines(s)
        zipped == 1..(IF Len(ls) < n THEN Len(ls) ELSE n)
    IN  IF \E k \in zipped : LinePanics(ls[k])
        THEN [panic |-> TRUE, board |-> None]
        ELSE [panic |-> FALSE,
              board |-> ParsedBoard([k \in 1..n |->
                            IF k \in zipped THEN LineCards(ls[k]) ELSE <<>>])]

\* The inputs: every text of at most MaxLines lines, each ended by a line
\* feed and each one of LineTexts: lines of the grammar, one of them blank,
\* and lines with a token outside it.
Token(value, suit) == value \o <<"_">> \o suit

RECURSIVE Join(_, _)
Join(pieces, ch) ==
    IF pieces = <<>> THEN <<>>
    ELSE IF Len(pieces) = 1 THEN pieces[1]
         ELSE pieces[1] \o <<ch>> \o Join(Tail(pieces), ch)

SWO == <<"S", "W", "O">>

WAN == <<"W", "A", "N">>

CUP == <<"C", "U", "P">>

STA == <<"S", "T", "A">>

\* the lines of the grammar, each with the cards it stands for
GrammarLines ==
    { [text  |-> <<>>,
       cards |-> <<>>],
      [text  |-> Join(<<Token(<<"3">>, SWO), Token(<<"2">>, SWO)>>, ","),
       cards |-> <<Minor("SWO", 3), Minor("SWO", 2)>>],
      [text  |-> Join(<<Token(<<"1", "0">>, CUP), Token(<<"0">>, MAJ)>>, ","),
       cards |-> <<Minor("CUP", 10), Major(0)>>],
      [text  |-> Join(<<Token(<<"K">>, STA), Token(<<"2", "1">>, MAJ)>>, ","),
       cards |-> <<Minor("STA", 13), Major(21)>>],
      [text  |-> <<" ">> \o Token(<<"5">>, WAN) \o <<",", " ">>,
       cards |-> <<Minor("WAN", 5)>>],
      [text  |-> <<"\r", "\f">> \o Token(<<"Q">>, CUP) \o <<"U+00A0">>,
       cards |-> <<Minor("CUP", 12)>>] }

\* lines with one token outside the grammar: an unknown suit code, an
\* unknown minor rank, MAJ values above 21, a signed MAJ value, a third
\* part, and an empty token
OtherLines ==
    { Token(<<"5">>, <<"X", "Y", "Z">>),
      Token(<<"1">>, SWO),
      Token(<<"2", "2">>, MAJ),
      Token(<<"2", "5", "5">>, MAJ),
      Token(<<"2", "5", "6">>, MAJ),
      Token(<<"+", "5">>, MAJ),
      Token(<<"5">>, WAN) \o <<"_">> \o CUP,
      Join(<<Token(<<"9">>, CUP), <<>>, Token(<<"6">>, WAN)>>, ",") }

LineTexts == {l.text : l \in GrammarLines} \cup OtherLines

RECURSIVE Text(_)
Text(ls) == IF ls = <<>> THEN <<>> ELSE ls[1] \o <<"\n">> \o Text(Tail(ls))

Inputs == UNION {{Text(ls) : ls \in [1..n -> LineTexts]} : n \in 0..MaxLines}

InitParse ==
    /\ input \in Inputs
    /\ pc = "start"
    /\ deal = None
    /\ board = None
    /\ window = OLD
    /\ nmoves = 0
    /\ cap = 0
    /\ searches = <<>>
    /\ result = None

\* main, lines 569-571: the text read is parsed
Parse ==
    /\ pc = "start"
    /\ LET r == BoardParse(input, ParseNumPiles)
       IN  IF r.panic
           THEN pc' = "panic" /\ UNCHANGED <<deal, board>>
           ELSE pc' = "parsed" /\ deal' = r.board /\ board' = r.board
    /\ UNCHANGED <<input, window, nmoves, cap, searches, result>>

NextParse == Parse \/ InitialCascade

SpecParse == InitParse /\ [][NextParse]_vars

----------------------------------------------------------------------------
(* The card predicates applied to two cards (lines 220-258).  The cards    *)
(* are those of the input grammar (majors 0..21 and the 13 ranks of the    *)
(* four suits) and two of the majors above 21 that MajorValue::parse lets  *)
(* in, the greatest of them, 255, being the one whose successor leaves the *)
(* u8.                                                                     *)

MinorFirst == 1

MinorLast == 13

GrammarCards ==
    {Major(v) : v \in MajorFirst..MajorLast}
    \cup {Minor(Suits[k], v) : k \in 1..NUM_SUITS, v \in MinorFirst..MinorLast}

CardInputs == GrammarCards \cup {Major(MajorLast + 1), Major(U8Range - 1)}

InitCards ==
    /\ input \in CardInputs \X CardInputs
    /\ pc = "start"
    /\ deal = None
    /\ board = None
    /\ window = OLD
    /\ nmoves = 0
    /\ cap = 0
    /\ searches = <<>>
    /\ result = None

Compare ==
    /\ pc = "start"
    /\ input \in CardInputs \X CardInputs
    /\ pc' = "compared"
    /\ LET A == input[1]
           B == input[2]
       IN  result' = [next     |-> is_next_card(A, B),
                      prev     |-> is_prev_card(B, A),
                      adjacent |-> is_next_or_prev(A, B),
                      mirrored |-> is_next_or_prev(B, A)]
    /\ UNCHANGED <<input, deal, board, window, nmoves, cap, searches>>

NextCards == Compare

SpecCards == InitCards /\ [][NextCards]_vars

----------------------------------------------------------------------------
(* Helpers of the properties *)

RECURSIVE Flatten(_, _)
Flatten(piles, i) ==
    IF i > Len(piles) THEN <<>> ELSE piles[i] \o Flatten(piles, i + 1)

\* every card of a board: tableau, trump foundations, suit foundations, slot
AllCards(b) ==
    Flatten(b.playing_area, 1) \o b.major_lower_stack \o b.major_higher_stack
    \o Flatten(b.minor_collection_piles, 1) \o b.minor_collection_blocked

Count(c, cards) == Cardinality({i \in DOMAIN cards : cards[i] = c})

SameCards(b1, b2) ==
    \A c \in Range(AllCards(b1)) \cup Range(AllCards(b2)) :
        Count(c, AllCards(b1)) = Count(c, AllCards(b2))

HistoryHas(b, kindFrom, kindTo) ==
    \E i \in DOMAIN b.last_n_moves :
        /\ b.last_n_moves[i].from.kind = kindFrom
        /\ b.last_n_moves[i].to.kind = kindTo

----------------------------------------------------------------------------
(* C1. Conservation: at every board reached from the parsed deal by the    *)
(* initial cascade and any sequence of generated moves, the multiset of    *)
(* cards over tableau, trump foundations, suit foundations and holding     *)
(* slot is that of the parsed deal (the four aces included).               *)
C1_Conservation == SameCards(board, deal)

\* a board reached through a hold, a pile-to-pile move and a release, whose
\* last move's cascade sucked cards, one of them out of the holding slot
C1_Witness ==
    /\ pc = "cascaded"
    /\ HistoryHas(board, "PlayingArea", "BlockMinorPiles")
    /\ HistoryHas(board, "PlayingArea", "PlayingArea")
    /\ HistoryHas(board, "BlockMinorPiles", "PlayingArea")
    /\ board.last_n_moves[1].num_sucks >= 2
    /\ board.last_n_moves[1].from.kind = "PlayingArea"
    /\ board.last_n_moves[1].to.kind = "BlockMinorPiles"
    /\ board.minor_collection_blocked = None

----------------------------------------------------------------------------
(* Helpers of the properties about the move generator and the cascade *)

Piles(b) == 1..Len(b.playing_area)

FiniteWindows == Windows \ {OLD}

\* the number of cards sucked by the n most recent moves of the history
RecentSucks(b, n) ==
    LET RECURSIVE Sum(_)
        Sum(i) == IF i > n THEN 0 ELSE b.last_n_moves[i].num_sucks + Sum(i + 1)
    IN  Sum(1)

\* the history holds at least n moves and its n most recent moves sucked
\* at most one card
CutoffCase(b, n) == Len(b.last_n_moves) >= n /\ RecentSucks(b, n) <= 1

\* the cutoff case of a play-out with window n (none with the window OLD)
CutoffCaseAt(b, n) == n /= OLD /\ CutoffCase(b, n)

IsHold(m) == m.from.kind = "PlayingArea" /\ m.to.kind = "BlockMinorPiles"

IsPileToPile(m) == m.from.kind = "PlayingArea" /\ m.to.kind = "PlayingArea"

IsRelease(m) == m.from.kind = "BlockMinorPiles" /\ m.to.kind = "PlayingArea"

\* the entries the generator returns for the board at hand
Generated == Range(next_boards(board, window).boards)

\* the board after the manual action of move m on board b, before its cascade
Manual(b, m) ==
    IF IsHold(m) THEN HoldManual(b, m.from.pile + 1)
    ELSE IF IsPileToPile(m) THEN PileManual(b, m.from.pile + 1, m.to.pile + 1)
    ELSE ReleaseManual(b, m.to.pile + 1)

\* the boards a cascade is run on: the board at hand (as parsed, before the
\* initial cascade, or at its fixpoint later) and the boards right after
\* each manual action the generator makes on it
CascadeInputs ==
    {board} \cup
    (IF pc = "cascaded"
     THEN {Manual(board, e.move) : e \in Range(next_boards(board, OLD).boards)}
     ELSE {})

----------------------------------------------------------------------------
(* C5. Generator completeness: on a board not cut off, for every non-empty *)
(* pile P with exposed card c and every other pile Q whose exposed card is *)
(* adjacent to c (or that is empty, P holding more than one card), the     *)
(* generator returns the move of c from P to Q.                            *)
C5_Completeness ==
    (pc = "cascaded" /\ ~CutoffCaseAt(board, window)) =>
        \A P \in Piles(board) : \A Q \in Piles(board) \ {P} :
            LET src == board.playing_area[P]
                dst == board.playing_area[Q]
            IN  (/\ src /= <<>>
                 /\ \/ dst /= <<>> /\ is_next_or_prev(Last(dst), Last(src)).value
                    \/ dst = <<>> /\ Len(src) > 1)
                => \E e \in Generated :
                      /\ IsPileToPile(e.move)
                      /\ e.move.from.pile = P - 1
                      /\ e.move.to.pile = Q - 1
                      /\ e.move.card = Last(src)

----------------------------------------------------------------------------
(* C6. Generator legality: every returned move has a non-empty source (a   *)
(* non-empty pile whose exposed card is the move's card, or the occupied   *)
(* holding slot), a pile-to-pile move has different source and             *)
(* destination, a tableau destination is empty or exposes a card adjacent  *)
(* to the moved card, and no move takes the only card of a pile to an      *)
(* empty pile.                                                             *)
LegalMove(b, m) ==
    /\ m.from.kind = "PlayingArea" =>
          /\ m.from.pile + 1 \in Piles(b)
          /\ b.playing_area[m.from.pile + 1] /= <<>>
          /\ Last(b.playing_area[m.from.pile + 1]) = m.card
    /\ m.from.kind = "BlockMinorPiles" =>
          b.minor_collection_blocked = Some(m.card)
    /\ IsPileToPile(m) => m.from.pile /= m.to.pile
    /\ m.to.kind = "PlayingArea" =>
          /\ m.to.pile + 1 \in Piles(b)
          /\ \/ b.playing_area[m.to.pile + 1] = <<>>
             \/ is_next_or_prev(Last(b.playing_area[m.to.pile + 1]), m.card).value
    /\ IsPileToPile(m) =>
          ~(Len(b.playing_area[m.from.pile + 1]) = 1
            /\ b.playing_area[m.to.pile + 1] = <<>>)

C6_Legality ==
    [](pc = "cascaded" => \A e \in Generated : LegalMove(board, e.move))

\* a board with a card held, a lone card on a pile and an empty pile, for
\* which the generator returns a release and a pile-to-pile move of the
\* lone card onto an adjacent card
C6_Witness ==
    /\ pc = "cascaded"
    /\ board.minor_collection_blocked /= None
    /\ \E Q \in Piles(board) : board.playing_area[Q] = <<>>
    /\ \E e \in Generated : IsRelease(e.move)
    /\ \E e \in Generated :
          /\ IsPileToPile(e.move)
          /\ Len(board.playing_area[e.move.from.pile + 1]) = 1

----------------------------------------------------------------------------
(* C7. Stagnation cutoff, for the finite windows N = 5, 10, 15.            *)

\* C7 as stated: the generator returns no successors exactly when the
\* history holds at least N moves whose sucks sum to at most 1.
C7_Original ==
    pc = "cascaded" =>
        \A n \in FiniteWindows :
            (next_boards(board, n).boards = <<>>) <=> CutoffCase(board, n)

\* C7 as amended: the generator's output is empty when the history holds at
\* least N moves and the N most recent moves sucked at most 1 card; in
\* every other case it is the output computed without a cutoff (which is
\* empty too when the board has no legal move).
C7_Cutoff ==
    pc = "cascaded" =>
        \A n \in FiniteWindows :
            next_boards(board, n).boards =
                IF CutoffCase(board, n) THEN <<>> ELSE next_boards(board, OLD).boards

\* a board with a history of 15 moves, the last 5 of them without a suck
\* but the last 10 with two: cut off under window 5, and not under windows
\* 10 and 15, where moves are returned
C7_Witness ==
    /\ pc = "cascaded"
    /\ Len(board.last_n_moves) = 15
    /\ CutoffCase(board, 5)
    /\ ~CutoffCase(board, 10)
    /\ ~CutoffCase(board, 15)
    /\ next_boards(board, 5).boards = <<>>
    /\ next_boards(board, 10).boards /= <<>>
    /\ next_boards(board, 15).boards /= <<>>

----------------------------------------------------------------------------
(* C8. Cascade idempotence: a second run of the cascade right after a      *)
(* first one leaves tableau, foundations and holding slot as they are and  *)
(* returns no sucked card.  It is checked on every board a cascade is run  *)
(* on: the parsed deal, the boards right after a manual action, and the    *)
(* fixpoints themselves.                                                   *)
Idempotent(b) ==
    LET first == suck_readies_into_receptacles(b)
        second == suck_readies_into_receptacles(first.b)
    IN  ~first.panic =>
            /\ ~second.panic
            /\ second.b = first.b
            /\ second.sucked = <<>>

C8_Idempotence == [](\A b \in CascadeInputs : Idempotent(b))

\* a board after a manual action whose cascade takes several passes: it
\* sucks three cards or more, onto both trump foundations
C8_Witness ==
    /\ pc = "cascaded"
    /\ \E b \in CascadeInputs :
          LET first == suck_readies_into_receptacles(b) IN
          /\ Len(first.sucked) >= 3
          /\ first.b.major_lower_stack /= b.major_lower_stack
          /\ first.b.major_higher_stack /= b.major_higher_stack

----------------------------------------------------------------------------
(* C9. Cascade confluence.                                                 *)

RECURSIVE Perms(_)
Perms(S) ==
    IF S = {} THEN {<<>>}
    ELSE UNION {{<<x>> \o rest : rest \in Perms(S \ {x})} : x \in S}

ScanOrders(b) == Perms(Piles(b))

\* C9 as stated: the fixpoint (tableau, both trump foundations, suit
\* foundations, holding slot) is the same for every order in which the
\* piles are scanned within a pass.
C9_Original ==
    \A b \in CascadeInputs : \A ord \in ScanOrders(b) :
        Content(SuckInOrder(b, ord).b) = Content(suck_readies_into_receptacles(b).b)

\* What does not depend on the scan order: the fixpoint has the same
\* tableau, suit foundations and holding slot, and the same cards on the
\* two trump foundations taken together; only how these cards are divided
\* between the ascending and the descending foundation may differ.
SameUpToTrumpSplit(b1, b2) ==
    /\ b1.playing_area = b2.playing_area
    /\ b1.minor_collection_piles = b2.minor_collection_piles
    /\ b1.minor_collection_blocked = b2.minor_collection_blocked
    /\ Range(b1.major_lower_stack) \cup Range(b1.major_higher_stack)
         = Range(b2.major_lower_stack) \cup Range(b2.major_higher_stack)
    /\ Len(b1.major_lower_stack) + Len(b1.major_higher_stack)
         = Len(b2.major_lower_stack) + Len(b2.major_higher_stack)

C9_Confluence ==
    \A b \in CascadeInputs : \A ord \in ScanOrders(b) :
        SameUpToTrumpSplit(SuckInOrder(b, ord).b,
                           suck_readies_into_receptacles(b).b)

\* a board after a manual action with two trumps exposed that the cascade
\* sucks, and a scan order that divides them differently between the two
\* trump foundations
C9_Witness ==
    /\ pc = "cascaded"
    /\ \E b \in CascadeInputs : \E ord \in ScanOrders(b) :
          /\ SuckInOrder(b, ord).b.major_lower_stack
                /= suck_readies_into_receptacles(b).b.major_lower_stack
          /\ Len(suck_readies_into_receptacles(b).sucked) >= 2

----------------------------------------------------------------------------
(* Helpers of the properties about the search and the race *)

TableauEmpty(b) == \A i \in Piles(b) : b.playing_area[i] = <<>>

Started == pc \in {"racing", "done", "panic"} /\ searches /= <<>>

\* the board after replaying, from the cascaded initial board, the moves of
\* the entries 2..i of a path, with a cascade after each
RECURSIVE Replayed(_, _)
Replayed(path, i) ==
    IF i = 1 THEN board
    ELSE suck_readies_into_receptacles(
             Manual(Replayed(path, i - 1), path[i].move[1])).b

ValidPath(path, n) ==
    /\ path /= <<>>
    /\ path[1] = Node(board, None)
    /\ TableauEmpty(Last(path).board)
    /\ \A i \in 1..(Len(path) - 1) :
          \E e \in Range(next_boards(path[i].board, n).boards) :
              /\ path[i + 1].board = e.board
              /\ path[i + 1].move = Some(e.move)
    /\ \A i \in DOMAIN path :
          Content(Replayed(path, i)) = Content(path[i].board)

----------------------------------------------------------------------------
(* C2. Solution validity: the path of every search variant that succeeded  *)
(* starts at the cascaded initial board with no move, ends at a board with *)
(* an empty tableau, every later entry is a (board, move) pair the move    *)
(* generator returns for the entry before it under the variant's window,   *)
(* and replaying the moves from the initial board, with a cascade after    *)
(* each, reproduces the boards of the path.  A search that has returned   *)
(* is not touched again, so the paths are examined once all have returned. *)
C2_Validity ==
    (Started /\ pc /= "racing") =>
        \A k \in Succeeded :
            ValidPath(searches[k].path, NUM_PREV_MOVES_TO_CONSIDERS[k])

\* the race has ended and the path main prints has three moves
C2_Witness ==
    /\ pc = "done"
    /\ Len(result[1]) = 4
    /\ \E k \in Succeeded : searches[k].path = result[1]

----------------------------------------------------------------------------
(* C3. Race selection: once the four variants have finished and main has   *)
(* its result, the length of the result is the minimum of the lengths of   *)
(* the paths of the variants that succeeded, whatever the interleaving.    *)
C3_RaceSelection ==
    pc = "done" =>
        /\ result /= None
        /\ \E k \in Succeeded : Len(result[1]) = Len(searches[k].path)
        /\ \A k \in Succeeded : Len(result[1]) <= Len(searches[k].path)

\* the race has ended, two variants succeeded with paths of different
\* lengths, and the result has the length of the shorter
C3_Witness ==
    /\ pc = "done"
    /\ \E k \in Succeeded : \E o \in Succeeded :
          /\ Len(searches[k].path) < Len(searches[o].path)
          /\ Len(result[1]) = Len(searches[k].path)

----------------------------------------------------------------------------
(* C4. An unsolvable deal is not fatal: when every variant has exhausted   *)
(* its frontier without reaching a terminal board, main is not in a        *)
(* failure state.                                                          *)
C4_UnsolvedNotFatal ==
    (Started /\ \A k \in Variants : searches[k].status = "exhausted")
        => pc /= "panic"

----------------------------------------------------------------------------
(* C10. Goal check: the search takes a board as a goal exactly on its      *)
(* tableau being empty, whatever the holding slot, the foundations and the *)
(* history hold: a path found ends at its first board with an empty        *)
(* tableau, and a node with an empty tableau is either still on the        *)
(* frontier or the end of the path found.                                  *)
C10_GoalCheck ==
    Started =>
        \A k \in Variants :
            LET s == searches[k] IN
            /\ s.status = "found" =>
                  /\ TableauEmpty(Last(s.path).board)
                  /\ \A i \in 1..(Len(s.path) - 1) : ~TableauEmpty(s.path[i].board)
            /\ \A i \in DOMAIN s.parents :
                  TableauEmpty(s.parents[i].node.board) =>
                      \/ \E g \in s.to_see : g.index = i - 1
                      \/ s.status = "found" /\ Last(s.path) = s.parents[i].node

\* the race has ended with a path whose last board has an empty tableau
\* and a card in the holding slot
C10_Witness ==
    /\ pc = "done"
    /\ TableauEmpty(Last(result[1]).board)
    /\ Last(result[1]).board.minor_collection_blocked /= None
    /\ Len(result[1]) > 1

----------------------------------------------------------------------------
(* C11. Scenario 3: pile 0 = [2 of Swords, 5 of Wands on top], all other   *)
(* piles empty.                                                            *)

IsScenario3 ==
    deal = ParsedBoard([i \in 1..RaceNumPiles |->
                           IF i = 1 THEN Scenario3Pile ELSE <<>>])

\* the move "5 of Wands: pile 0 -> pile 1", whose cascade sucks one card
Scenario3Move ==
    Move(PlayingArea(0, 1), PlayingArea(1, 0), Minor("WAN", 5), 1)

SwordFoundation(b) == b.minor_collection_piles[1]

\* C11 as stated: the move is generated, its cascade advances the 2 of
\* Swords, the board after it is terminal, and the search returns a
\* one-move solution.
C11_Original ==
    (IsScenario3 /\ pc /= "parsed") =>
        /\ \E e \in Range(next_boards(board, OLD).boards) :
              /\ e.move = Scenario3Move
              /\ Last(SwordFoundation(e.board)) = Minor("SWO", 2)
              /\ is_done(e.board)
        /\ pc \in {"done", "panic"} =>
              /\ pc = "done"
              /\ Len(result[1]) = 2
              /\ result[1][2].move = Some(Scenario3Move)

\* C11 as amended: the move is generated and its cascade advances the 2 of
\* Swords into the Sword foundation; the board after it holds the 5 of
\* Wands alone on pile 1 and is not terminal; no variant of the search
\* finds a solution.
C11_Scenario3 ==
    (IsScenario3 /\ pc /= "parsed") =>
        /\ \E e \in Range(next_boards(board, OLD).boards) :
              /\ e.move = Scenario3Move
              /\ SwordFoundation(e.board) = <<Minor("SWO", 1), Minor("SWO", 2)>>
              /\ e.board.playing_area =
                    [i \in 1..RaceNumPiles |->
                        IF i = 2 THEN <<Minor("WAN", 5)>> ELSE <<>>]
              /\ ~is_done(e.board)
        /\ Started => \A k \in Variants : searches[k].status /= "found"

\* every variant has exhausted its frontier on Scenario 3
C11_Witness ==
    /\ IsScenario3
    /\ Started
    /\ \A k \in Variants :
          /\ searches[k].status = "exhausted"
          /\ Len(searches[k].parents) > 1

----------------------------------------------------------------------------
(* C12. Chained cascade (Scenarios 1 and 2): the initial cascade alone     *)
(* advances the 2 and then the 3 of Swords, whether the 3 lies beneath the *)
(* 2 in the same pile, in a pile of lower index or in a pile of higher     *)
(* index; the cascaded board is terminal and every search variant returns  *)
(* the path of the start node alone, so main prints no move.               *)

ChainDeals ==
    {[i \in 1..RaceNumPiles |->
         IF i = 1 THEN <<Minor("SWO", 3), Minor("SWO", 2)>> ELSE <<>>]}
    \cup {[i \in 1..RaceNumPiles |-> IF i <= Len(d) THEN d[i] ELSE <<>>] :
            d \in CrossDeals}

IsChainDeal == \E pa \in ChainDeals : deal = ParsedBoard(pa)

C12_ChainedCascade ==
    (IsChainDeal /\ pc /= "parsed") =>
        /\ is_done(board)
        /\ SwordFoundation(board) =
              <<Minor("SWO", 1), Minor("SWO", 2), Minor("SWO", 3)>>
        /\ Started =>
              \A k \in Variants :
                  /\ searches[k].status \in {"running", "found"}
                  /\ searches[k].status = "found" =>
                        searches[k].path = <<Node(board, None)>>
        /\ pc \in {"done", "panic"} =>
              /\ pc = "done"
              /\ result = Some(<<Node(board, None)>>)

\* Scenario 2 has been solved: the 3 of Swords on pile 0 advanced after the
\* 2 of Swords on pile 1, in a second pass of the same cascade
C12_Witness ==
    /\ pc = "done"
    /\ deal.playing_area[1] = <<Minor("SWO", 3)>>
    /\ deal.playing_area[2] = <<Minor("SWO", 2)>>
    /\ is_done(board)
    /\ Len(result[1]) = 1

----------------------------------------------------------------------------
(* C13. Foundation shape: at every board of the play-outs (deals without   *)
(* duplicate cards and without aces in the tableau) major_lower_stack is   *)
(* 0, 1, .., k, major_higher_stack is 21, 20, .., j with k < j, and the    *)
(* minor collection pile of each suit is the ranks 1, 2, .., r of that     *)
(* suit.                                                                   *)
FoundationShape(b) ==
    /\ \A i \in DOMAIN b.major_lower_stack :
          b.major_lower_stack[i] = Major(MajorFirst + i - 1)
    /\ \A i \in DOMAIN b.major_higher_stack :
          b.major_higher_stack[i] = Major(MajorLast - i + 1)
    /\ MajorFirst + Len(b.major_lower_stack) - 1
          < MajorLast - Len(b.major_higher_stack) + 1
    /\ \A k \in 1..NUM_SUITS :
          /\ b.minor_collection_piles[k] /= <<>>
          /\ \A i \in DOMAIN b.minor_collection_piles[k] :
                b.minor_collection_piles[k][i] = Minor(Suits[k], i)

C13_FoundationShape == FoundationShape(board)

\* a board after a manual move on which the two trump foundations meet
\* (all 22 trumps are placed) and two suit foundations have grown
C13_Witness ==
    /\ pc = "cascaded"
    /\ nmoves >= 1
    /\ Len(board.major_lower_stack) + Len(board.major_higher_stack) = 22
    /\ board.major_higher_stack /= <<>>
    /\ Cardinality({k \in 1..NUM_SUITS :
                       Len(board.minor_collection_piles[k]) >= 2}) >= 2

----------------------------------------------------------------------------
(* C14. Adjacency symmetry: for all cards A and B of the grammar, no sum   *)
(* of the comparisons leaves the u8 (so every build computes the same);    *)
(* A.is_next_card(B) holds iff B.is_prev_card(A) holds; both hold exactly  *)
(* when A and B are both major or minor of the same suit and the rank of B *)
(* is the rank of A plus one; and A.is_next_or_prev(B) holds iff           *)
(* B.is_next_or_prev(A) holds.                                             *)
SameDomain(A, B) ==
    \/ IsMajor(A) /\ IsMajor(B)
    \/ ~IsMajor(A) /\ ~IsMajor(B) /\ A.suit = B.suit

C14_AdjacencySymmetry ==
    (pc = "compared" /\ input \in GrammarCards \X GrammarCards) =>
        LET A == input[1]
            B == input[2]
        IN  /\ \A call \in DOMAIN result : ~result[call].overflow
            /\ result.next.value <=> result.prev.value
            /\ result.next.value <=> (SameDomain(A, B) /\ B.value = A.value + 1)
            /\ result.adjacent.value <=> result.mirrored.value

\* the predicates applied to the queen of cups and its successor the king,
\* and all four found to hold
C14_Witness ==
    /\ pc = "compared"
    /\ input = <<Minor("CUP", 12), Minor("CUP", 13)>>
    /\ result.next.value /\ result.prev.value
    /\ result.adjacent.value /\ result.mirrored.value

----------------------------------------------------------------------------
(* C15. No cancellation: main has its result (or its panic) only when all  *)
(* four variants have finished, each with a path to a done board or with   *)
(* an empty frontier; and whatever the others have reached, the state of   *)
(* a variant changes only by an iteration of its own loop, which leaves    *)
(* every other variant as it was.                                          *)
Finished(k) ==
    \/ /\ searches[k].status = "found"
       /\ is_done(Last(searches[k].path).board)
    \/ /\ searches[k].status = "exhausted"
       /\ searches[k].to_see = {}

OwnStep(k) ==
    /\ searches[k].status = "running"
    /\ \/ /\ searches[k].to_see = {}
          /\ searches'[k] = [searches[k] EXCEPT !.status = "exhausted"]
       \/ \E popped \in Greatest(searches[k].to_see) :
             searches'[k] \in AstarPop(searches[k],
                                       NUM_PREV_MOVES_TO_CONSIDERS[k], popped)
    /\ \A o \in Variants \ {k} : searches'[o] = searches[o]

C15_NoCancellation ==
    /\ [](pc \in {"done", "panic"} /\ Started
            => \A k \in Variants : Finished(k))
    /\ [][Started /\ searches' /= searches
            => \E k \in Variants : OwnStep(k)]_vars

\* one variant has found its path while another, past its first
\* iteration, is still searching
C15_Witness ==
    /\ pc = "racing"
    /\ \E k, j \in Variants :
          /\ searches[k].status = "found"
          /\ searches[j].status = "running"
          /\ Len(searches[j].parents) > 1
          /\ searches[j].to_see /= {}

----------------------------------------------------------------------------
(* C16. Input layout.                                                      *)
IsBlank(line) == trim(line) = <<>>

IsGrammarLine(line) == \E l \in GrammarLines : l.text = line

CardsOf(line) == (CHOOSE l \in GrammarLines : l.text = line).cards

Parsed == pc \in {"parsed", "cascaded"} /\ deal /= None

(* C16 as stated: the k-th non-blank line of the input fills pile k (blank *)
(* lines take no pile), its tokens in order, the last one exposed.         *)
C16_Original ==
    Parsed =>
        LET NonBlank(l) == ~IsBlank(l)
            nb == SelectSeq(lines(input), NonBlank)
        IN  \A k \in 1..ParseNumPiles :
               (k <= Len(nb) /\ IsGrammarLine(nb[k]))
                  => deal.playing_area[k] = CardsOf(nb[k])

(* C16 as the code has it: the k-th line of the input, blank or not, fills *)
(* pile k for k up to the number of piles (a blank line leaves its pile    *)
(* empty and takes its number; the piles after the last line are empty),   *)
(* its tokens in order, the last one exposed.                              *)
C16_InputLayout ==
    Parsed =>
        LET ls == lines(input)
        IN  \A k \in 1..ParseNumPiles :
               /\ (k <= Len(ls) /\ IsGrammarLine(ls[k]))
                     => deal.playing_area[k] = CardsOf(ls[k])
               /\ k > Len(ls) => deal.playing_area[k] = <<>>

\* a deal parsed from a text that begins with a blank line and goes on with
\* the line 3_SWO,2_SWO: pile 1 is empty and pile 2 holds the two cards,
\* the 2 exposed
C16_Witness ==
    /\ pc = "parsed"
    /\ Len(lines(input)) >= 2
    /\ lines(input)[1] = <<>>
    /\ lines(input)[2] = Join(<<Token(<<"3">>, SWO), Token(<<"2">>, SWO)>>, ",")
    /\ deal.playing_area[1] = <<>>
    /\ deal.playing_area[2] = <<Minor("SWO", 3), Minor("SWO", 2)>>
    /\ Last(deal.playing_area[2]) = Minor("SWO", 2)

----------------------------------------------------------------------------
(* C17. Malformed input is fatal: when a line of the input holds a token   *)
(* outside the grammar (an unknown suit code, an unknown minor rank, a MAJ *)
(* value outside 0..21, a part too many or too few), parsing panics: main  *)
(* never gets a deal from such a text.                                     *)
HasTokenOutsideGrammar(text) ==
    \E k \in DOMAIN lines(text) : lines(text)[k] \in OtherLines

C17_MalformedFatal ==
    (pc /= "start" /\ HasTokenOutsideGrammar(input)) => pc = "panic"

----------------------------------------------------------------------------
(* C18. Suit-foundation rule.                                              *)

\* pile i of b exposes a minor card whose rank is one more than the top of
\* the minor collection pile of its suit
ReadyMinor(b, i) ==
    /\ b.playing_area[i] /= <<>>
    /\ ~IsMajor(Last(b.playing_area[i]))
    /\ \E k \in 1..NUM_SUITS :
          /\ Suits[k] = Last(b.playing_area[i]).suit
          /\ Last(b.playing_area[i]).value
                = Last(b.minor_collection_piles[k]).value + 1

(* C18 as stated: on every board the cascade has returned, whatever its    *)
(* holding slot contains, no pile exposes a ready minor card.              *)
C18_Original ==
    pc = "cascaded" => \A i \in DOMAIN board.playing_area : ~ReadyMinor(board, i)

(* C18 as the code has it: on every board the cascade has returned with    *)
(* the holding slot empty, no pile exposes a ready minor card.             *)
C18_SuitFoundationRule ==
    (pc = "cascaded" /\ board.minor_collection_blocked = None)
        => \A i \in DOMAIN board.playing_area : ~ReadyMinor(board, i)

\* the board after a release whose cascade, the slot being empty again,
\* advanced a minor card the held card had blocked; a pile still exposes a
\* minor card, not a ready one
C18_Witness ==
    /\ pc = "cascaded"
    /\ board.minor_collection_blocked = None
    /\ board.last_n_moves /= <<>>
    /\ Head(board.last_n_moves).from = BlockMinorPiles
    /\ Head(board.last_n_moves).num_sucks >= 1
    /\ \E k \in 1..NUM_SUITS : Len(board.minor_collection_piles[k]) >= 2
    /\ \E i \in DOMAIN board.playing_area :
          /\ board.playing_area[i] /= <<>>
          /\ ~IsMajor(Last(board.playing_area[i]))

----------------------------------------------------------------------------
(* C19. Held-card cascade.  The held-card step of a pass (lines 423-446)   *)
(* has two rules, both for a trump foundation that is not empty; the rules *)
(* of an exposed pile card (lines 379-420) are five.                       *)

\* the suit foundation a card would advance to by the rule, if any
ReadySuit(b, card) ==
    {k \in 1..NUM_SUITS :
        /\ ~IsMajor(card)
        /\ Suits[k] = card.suit
        /\ card.value = Last(b.minor_collection_piles[k]).value + 1}

ReadyLower(b, card) ==
    /\ IsMajor(card)
    /\ \/ b.major_lower_stack = <<>> /\ card.value = MajorFirst
       \/ /\ b.major_lower_stack /= <<>>
          /\ card.value = Last(b.major_lower_stack).value + 1

ReadyHigher(b, card) ==
    /\ IsMajor(card)
    /\ \/ b.major_higher_stack = <<>> /\ card.value = MajorLast
       \/ /\ b.major_higher_stack /= <<>>
          /\ card.value = Last(b.major_higher_stack).value - 1

\* the held card advanced by the rules of an exposed pile card
HeldByPileRules(st) ==
    IF st.panic \/ st.b.minor_collection_blocked = None THEN st
    ELSE LET card == st.b.minor_collection_blocked[1]
             advanced == [st EXCEPT !.b.minor_collection_blocked = None,
                                    !.sucked = Append(@, card),
                                    !.changed = TRUE]
         IN  IF ReadySuit(st.b, card) /= {}
             THEN [advanced EXCEPT
                     !.b.minor_collection_piles[CHOOSE k \in ReadySuit(st.b, card) : TRUE]
                         = Append(@, card)]
             ELSE IF ReadyLower(st.b, card)
             THEN [advanced EXCEPT !.b.major_lower_stack = Append(@, card)]
             ELSE IF ReadyHigher(st.b, card)
             THEN [advanced EXCEPT !.b.major_higher_stack = Append(@, card)]
             ELSE st

RECURSIVE LoopByPileRules(_, _)
LoopByPileRules(st, ord) ==
    LET next == HeldByPileRules(
                    SuckPiles([st EXCEPT !.changed = FALSE],
                              last_card_of_every_stack(st.b), ord, 1))
    IN  IF next.panic \/ ~next.changed THEN next ELSE LoopByPileRules(next, ord)

CascadeByPileRules(b) ==
    LoopByPileRules(CascadeStart(b),
                    ScanOrder(b))

\* the cards of b that are not on a foundation
InPlay(b) == Range(Flatten(b.playing_area, 1)) \cup Range(b.minor_collection_blocked)

\* the board b with card in the holding slot
Holding(b, card) == [b EXCEPT !.minor_collection_blocked = Some(card)]

\* where the held-card step of a pass leaves card when it is held on a
\* board with the foundations of b
HeldGoes(b, card) ==
    LET st == SuckBlocked(CascadeStart(Holding(b, card)))
    IN  IF st.b.minor_collection_blocked /= None THEN "held"
        ELSE IF /\ st.b.major_lower_stack = Append(b.major_lower_stack, card)
                /\ st.sucked = <<card>>
        THEN "ascending"
        ELSE IF /\ st.b.major_higher_stack = Append(b.major_higher_stack, card)
                /\ st.sucked = <<card>>
        THEN "descending"
        ELSE "elsewhere"

\* where the rules of an exposed pile card send a card
GoesByPileRules(b, card) ==
    IF ReadySuit(b, card) /= {} THEN "suit"
    ELSE IF ReadyLower(b, card) THEN "ascending"
    ELSE IF ReadyHigher(b, card) THEN "descending"
    ELSE "held"

\* where the two rules for a trump foundation that is not empty send a card
GoesByTrumpTops(b, card) ==
    IF /\ IsMajor(card) /\ b.major_lower_stack /= <<>>
       /\ card.value = Last(b.major_lower_stack).value + 1
    THEN "ascending"
    ELSE IF /\ IsMajor(card) /\ b.major_higher_stack /= <<>>
            /\ card.value = Last(b.major_higher_stack).value - 1
    THEN "descending"
    ELSE "held"

HeldOnto(b, stack) ==
    /\ b.minor_collection_blocked /= None
    /\ suck_readies_into_receptacles(b).b.minor_collection_blocked = None
    /\ \E p \in 2..Len(suck_readies_into_receptacles(b).b[stack]) :
          suck_readies_into_receptacles(b).b[stack][p] = b.minor_collection_blocked[1]

----------------------------------------------------------------------------
(* C20. Suit foundations are blocked by the holding slot: in every cascade *)
(* run on a board with a held card, a minor card is sucked only after the  *)
(* held card has been (the cards sucked are recorded in order), and a      *)
(* cascade that returns with the slot occupied has left the four minor     *)
(* collection piles as they were; so every move that ends with a card held *)
(* (the hold itself, and every move made while the card stays held)        *)
(* leaves the four minor collection piles unchanged.                       *)
SuckedWhileBlocked(b, sucked) ==
    \E i \in DOMAIN sucked :
        /\ ~IsMajor(sucked[i])
        /\ \A j \in 1..(i - 1) : sucked[j] /= b.minor_collection_blocked[1]

C20_SlotBlocksSuits ==
    /\ [](\A b \in CascadeInputs :
            LET r == suck_readies_into_receptacles(b)
            IN  /\ b.minor_collection_blocked /= None
                      => ~SuckedWhileBlocked(b, r.sucked)
                /\ r.b.minor_collection_blocked /= None
                      => r.b.minor_collection_piles = b.minor_collection_piles)
    /\ [][board'.minor_collection_blocked /= None
            => board'.minor_collection_piles = board.minor_collection_piles]_vars

\* a card is held, a move has been made since it was, and a pile exposes a
\* minor card that is next on its suit foundation and has not advanced
C20_Witness ==
    /\ pc = "cascaded"
    /\ board.minor_collection_blocked /= None
    /\ Len(board.last_n_moves) >= 2
    /\ IsPileToPile(Head(board.last_n_moves))
    /\ \E i \in DOMAIN board.playing_area : ReadyMinor(board, i)

----------------------------------------------------------------------------
(* C21. Hold rule: on a board not cut off, the generator returns a hold    *)
(* for pile P exactly when nothing is held and P has more than one card;   *)
(* the move of such an entry names P, the depth of the card and the card,  *)
(* and its board is the cascade of the board with the card                 *)
(* taken from P into the slot: P has lost the card, and the card is in the *)
(* slot unless the cascade sucked it.                                      *)
HoldsOf(entries, P) ==
    {e \in entries : IsHold(e.move) /\ e.move.from.pile = P - 1}

C21_HoldRule ==
    [](  (pc = "cascaded" /\ ~CutoffCaseAt(board, window)) =>
          LET entries == Generated IN
          \A P \in Piles(board) :
             LET holds == HoldsOf(entries, P) IN
             /\ holds /= {}
                   <=> (board.minor_collection_blocked = None
                        /\ Len(board.playing_area[P]) > 1)
             /\ \A e \in holds :
                   LET c == Last(board.playing_area[P])
                       taken == [board EXCEPT
                                   !.playing_area[P] = SubSeq(@, 1, Len(@) - 1),
                                   !.minor_collection_blocked = <<c>>]
                       r == suck_readies_into_receptacles(taken)
                   IN  /\ e.move.card = c
                       /\ e.move.from.depth = Len(board.playing_area[P]) - 1
                       /\ Content(e.board) = Content(r.b)
                       /\ Len(e.board.playing_area[P]) < Len(board.playing_area[P])
                       /\ \/ e.board.minor_collection_blocked = <<c>>
                          \/ /\ e.board.minor_collection_blocked = None
                             /\ \E i \in DOMAIN r.sucked : r.sucked[i] = c  )

\* a board with nothing held, on which a pile of several cards is held from
\* and a pile of one card is not
C21_Witness ==
    /\ pc = "cascaded"
    /\ ~CutoffCaseAt(board, window)
    /\ board.minor_collection_blocked = None
    /\ \E P, Q \in Piles(board) :
          /\ Len(board.playing_area[P]) > 1
          /\ HoldsOf(Generated, P) /= {}
          /\ Len(board.playing_area[Q]) = 1
          /\ HoldsOf(Generated, Q) = {}

----------------------------------------------------------------------------
(* C22. Visited-state deduplication by board content: in each search, no   *)
(* two nodes of the index map have boards of the same content (tableau,    *)
(* foundations, held card), so no board content is expanded twice.         *)

\* node i of search k has been popped and its successors inserted
Expanded(k, i) ==
    /\ \A h \in searches[k].to_see : h.index /= i - 1
    /\ ~is_done(searches[k].parents[i].node.board)

C22_ContentDedup ==
    Started =>
        \A k \in Variants : \A i, j \in DOMAIN searches[k].parents :
            (/\ Content(searches[k].parents[i].node.board)
                  = Content(searches[k].parents[j].node.board)
             /\ Expanded(k, i)
             /\ Expanded(k, j))
                => i = j

----------------------------------------------------------------------------
(* C23. History is used only for pruning: for the board at hand and for    *)
(* the board of the same content whose history is the most recent move     *)
(* only, the generator under                                               *)
(* the window of the play-out returns nothing, the board being cut off, or *)
(* the same set of (successor content, move) pairs as it returns for the   *)
(* content without a history and without a window; under OLD the board at *)
(* hand is never cut off and returns that set.                             *)
Pairs(entries) == {<<Content(e.board), e.move>> : e \in Range(entries)}

OtherHistories(b) ==
    {b.last_n_moves}
    \cup (IF b.last_n_moves = <<>> THEN {} ELSE {<<Head(b.last_n_moves)>>})

WithHistory(b, h) == [b EXCEPT !.last_n_moves = h]

C23_HistoryOnlyPrunes ==
    [](  pc = "cascaded" =>
          LET reference == Pairs(next_boards(WithHistory(board, <<>>), OLD).boards)
          IN  /\ ~CutoffCaseAt(board, OLD)
              /\ Pairs(next_boards(board, OLD).boards) = reference
              /\ \A h \in OtherHistories(board) :
                    LET b == WithHistory(board, h)
                        windowed == next_boards(b, window).boards
                    IN  \/ /\ windowed = <<>>
                           /\ CutoffCaseAt(b, window)
                        \/ Pairs(windowed) = reference  )

\* a board that is cut off under the finite window of its play-out, while
\* the same content with the most recent move as its only history is not
\* and gets the moves the unbounded configuration returns
C23_Witness ==
    /\ pc = "cascaded"
    /\ window /= OLD
    /\ Len(board.last_n_moves) >= 2
    /\ next_boards(board, window).boards = <<>>
    /\ next_boards(board, OLD).boards /= <<>>
    /\ Pairs(next_boards(WithHistory(board, <<Head(board.last_n_moves)>>), window).boards)
          = Pairs(next_boards(board, OLD).boards)

----------------------------------------------------------------------------
(* C24. Bounded history.                                                   *)
Min(a, b) == IF a < b THEN a ELSE b

FirstN(seq, n) == SubSeq(seq, 1, Min(Len(seq), n))

(* C24 as stated: in a play-out with the finite window N the record of the *)
(* board reached by k moves holds min(k, N) moves.                         *)
C24_Original ==
    (pc = "cascaded" /\ window /= OLD)
        => Len(board.last_n_moves) = Min(nmoves, window)

(* C24 as the code has it: whatever the window, the record of the board    *)
(* reached by k moves holds min(k, 15) moves, and each move made puts the  *)
(* move, with the number of cards its cascade sucked, in front of the      *)
(* first 14 moves of the record before it: the record is the last          *)
(* min(k, 15) moves of the path, most recent first.                        *)
C24_BoundedHistory ==
    /\ [](pc = "cascaded" =>
            Len(board.last_n_moves) = Min(nmoves, MAX_NUM_PREV_MOVES_TO_CONSIDER))
    /\ [][(nmoves' = nmoves + 1 /\ pc' = "cascaded") =>
            \E e \in Range(next_boards(board, window).boards) :
               /\ Content(board') = Content(e.board)
               /\ board'.last_n_moves =
                     FirstN(<<e.move>> \o board.last_n_moves,
                            MAX_NUM_PREV_MOVES_TO_CONSIDER)
               /\ e.move.num_sucks =
                     Len(suck_readies_into_receptacles(Manual(board, e.move)).sucked)]_vars

\* a board reached by more than 15 moves: the first move of the path is no
\* longer in its record of 15
C24_Witness ==
    /\ pc = "cascaded"
    /\ nmoves > MAX_NUM_PREV_MOVES_TO_CONSIDER
    /\ Len(board.last_n_moves) = MAX_NUM_PREV_MOVES_TO_CONSIDER
    /\ IsRelease(Head(board.last_n_moves))
    /\ IsRelease(Last(board.last_n_moves))

----------------------------------------------------------------------------
(* The race under the allocator (lines 16-26). ALLOCATOR is the one object  *)
(* the astar calls of the race share: every allocation of every variant is *)
(* counted against one limit, and an allocation that would pass it fails,  *)
(* which aborts the process. Memory is counted in search nodes: a running  *)
(* call holds the nodes of its index map, a call that has returned holds   *)
(* the nodes of the path it returned.                                      *)

\* the limit of the allocator, in search nodes
MemoryLimitNodes == 16

Footprint(st) ==
    IF st.status = "running" THEN Len(st.parents)
    ELSE IF st.status = "found" THEN Len(st.path)
    ELSE 0

RECURSIVE SumFootprint(_, _)
SumFootprint(ss, ks) ==
    IF ks = {} THEN 0
    ELSE LET k == CHOOSE x \in ks : TRUE
         IN  Footprint(ss[k]) + SumFootprint(ss, ks \ {k})

Allocated(ss) == SumFootprint(ss, DOMAIN ss)

\* the states one iteration of the loop of an astar call under window n
\* may lead to from st
AstarStep(st, n) ==
    IF st.status /= "running" THEN {}
    ELSE IF st.to_see = {} THEN {[st EXCEPT !.status = "exhausted"]}
    ELSE UNION {AstarPop(st, n, popped) : popped \in Greatest(st.to_see)}

\* SearchStepCapped with an early exit: a variant that finds a path stops
\* the variants still running
SearchStepCapped_EarlyExit(k) ==
    /\ pc = "racing"
    /\ \E st \in AstarStep(searches[k], NUM_PREV_MOVES_TO_CONSIDERS[k]) :
          /\ Allocated([searches EXCEPT ![k] = st]) <= MemoryLimitNodes
          /\ searches' =
                [o \in Variants |->
                    IF o = k THEN st
                    ELSE IF st.status = "found" /\ searches[o].status = "running"
                    THEN [searches[o] EXCEPT !.status = "exhausted"]
                    ELSE searches[o]]
    /\ UNCHANGED <<input, pc, deal, board, window, nmoves, cap, result>>

\* one iteration of variant k's call whose allocations the allocator grants
SearchStepCapped(k) ==
    /\ pc = "racing"
    /\ \E st \in AstarStep(searches[k], NUM_PREV_MOVES_TO_CONSIDERS[k]) :
          /\ Allocated([searches EXCEPT ![k] = st]) <= MemoryLimitNodes
          /\ searches' = [searches EXCEPT ![k] = st]
    /\ UNCHANGED <<input, pc, deal, board, window, nmoves, cap, result>>

\* one iteration of variant k's call in which an allocation fails: the
\* process is aborted
AllocError(k) ==
    /\ pc = "racing"
    /\ \E st \in AstarStep(searches[k], NUM_PREV_MOVES_TO_CONSIDERS[k]) :
          Allocated([searches EXCEPT ![k] = st]) > MemoryLimitNodes
    /\ pc' = "aborted"
    /\ UNCHANGED <<input, deal, board, window, nmoves, cap, searches, result>>

NextCapped ==
    \/ InitialCascade
    \/ StartRace
    \/ \E k \in Variants : SearchStepCapped(k)
    \/ \E k \in Variants : AllocError(k)
    \/ Reduce

SpecCapped == InitRace /\ [][NextCapped]_vars

----------------------------------------------------------------------------
(* C25. Variant independence.                                              *)

\* the states the astar call under window n passes through when it runs
\* alone: those seen, and those one more iteration leads to from fresh
RECURSIVE AloneFrom(_, _, _)
AloneFrom(seen, fresh, n) ==
    IF fresh = {} THEN seen
    ELSE LET all == seen \cup fresh
         IN  AloneFrom(all, (UNION {AstarStep(st, n) : st \in fresh}) \ all, n)

Alone(k) ==
    AloneFrom({}, {AstarStart(Node(board, None))}, NUM_PREV_MOVES_TO_CONSIDERS[k])

Outcome(st) == [status |-> st.status, path |-> st.path]

Returned(st) == st.status \in {"found", "exhausted"}

AloneOutcomes(k) == {Outcome(st) : st \in {a \in Alone(k) : Returned(a)}}

(* C25: in the race, under the shared allocator and every interleaving,    *)
(* every variant starts from its own copy of the start board, every step   *)
(* is a step of one variant by its own state, which leaves the start board *)
(* and the frontier, the visited table and the boards of every other       *)
(* variant as they were, and when the race is over what each variant has   *)
(* returned (a path, or exhaustion) is an outcome of its search run alone  *)
(* on the start board.                                                     *)
C25_VariantIndependence ==
    /\ [](pc \in {"done", "panic"} /\ searches /= <<>> =>
            \A k \in Variants :
               /\ Returned(searches[k])
               /\ Outcome(searches[k]) \in AloneOutcomes(k))
    /\ [][/\ (searches = <<>> /\ searches' /= <<>>) =>
               \A k \in Variants : searches'[k] = AstarStart(Node(board, None))
          /\ searches /= <<>> =>
               /\ board' = board
               /\ \A k \in Variants :
                     searches'[k] /= searches[k] =>
                        /\ searches'[k] \in
                              AstarStep(searches[k], NUM_PREV_MOVES_TO_CONSIDERS[k])
                        /\ \A o \in Variants \ {k} : searches'[o] = searches[o]]_vars

\* the race is over, two variants having returned different paths
C25_Witness ==
    /\ pc = "done"
    /\ searches /= <<>>
    /\ \E k, o \in Variants :
          /\ searches[k].status = "found" /\ searches[o].status = "found"
          /\ searches[k].path /= searches[o].path
          /\ Len(searches[k].path) > 2

----------------------------------------------------------------------------
(* C26. Progress accounting.                                               *)

\* the number of cards in the foundations of b
NumCollected(b) ==
    Len(b.major_lower_stack) + Len(b.major_higher_stack)
    + SumLen(b.minor_collection_piles, 1)

(* C26: for every pair (B', m) the Move Generator returns for the board B  *)
(* of a play-out, m.num_sucks is the number of cards the cascade after the *)
(* manual action moved into the foundations, and the estimate              *)
(* num_cards_remaining of B' is that of B less m.num_sucks; every move     *)
(* followed leaves the estimate as it was or lowers it.                    *)
C26_ProgressAccounting ==
    /\ [](pc = "cascaded" =>
            \A e \in Generated :
               /\ e.move.num_sucks
                     = Len(suck_readies_into_receptacles(Manual(board, e.move)).sucked)
               /\ e.move.num_sucks = NumCollected(e.board) - NumCollected(board)
               /\ num_cards_remaining(e.board)
                     = num_cards_remaining(board) - e.move.num_sucks)
    /\ [][(pc = "cascaded" /\ pc' = "cascaded") =>
            num_cards_remaining(board') <= num_cards_remaining(board)]_vars

\* after a move, the Move Generator returns a hold whose cascade advances
\* the card held and a card of the tableau, and a move that advances nothing
C26_Witness ==
    /\ pc = "cascaded"
    /\ nmoves >= 1
    /\ \E e \in Generated :
          /\ IsHold(e.move)
          /\ e.move.num_sucks >= 2
          /\ e.board.minor_collection_blocked = None
    /\ \E e \in Generated : e.move.num_sucks = 0

----------------------------------------------------------------------------
(* C27. Termination.                                                       *)

\* the states after each pass of the cascade's loop, up to the pass that
\* ends it
RECURSIVE PassesFrom(_, _)
PassesFrom(st, ord) ==
    LET next == SuckPass(st, ord)
    IN  IF next.panic \/ ~next.changed THEN <<next>>
        ELSE <<next>> \o PassesFrom(next, ord)

Passes(b) ==
    PassesFrom(CascadeStart(b),
               ScanOrder(b))

\* the cascade on b ends after at most one pass more than b has cards to
\* advance, every pass but the last moving a card into a foundation, and
\* leaves the board after
CascadeTerminates(b, after) ==
    LET passes == Passes(b)
        n == Len(passes)
    IN  /\ n <= num_cards_remaining(b) + 1
        /\ ~passes[n].changed
        /\ Content(passes[n].b) = Content(after)
        /\ \A i \in 1..(n - 1) :
              /\ passes[i].changed
              /\ NumCollected(passes[i].b)
                    > NumCollected(IF i = 1 THEN b ELSE passes[i - 1].b)

\* the number of nodes of a search that are no longer in its frontier
NumExpanded(st) == Len(st.parents) - Cardinality(st.to_see)

\* the nodes a search has recorded from index i on are search states it
\* had not recorded before
FreshFrom(st, i) ==
    \A j \in i..Len(st.parents) : \A o \in 1..(j - 1) :
        NodeKey(st.parents[j].node) /= NodeKey(st.parents[o].node)

\* the variants other than k have made no iteration yet
OthersAtStart(k) ==
    \A o \in Variants \ {k} : searches[o] = AstarStart(Node(board, None))

(* C27: under the scheduling of the race, the initial cascade and the      *)
(* cascade of every successor a search records end after finitely many     *)
(* passes, each changing pass moving a card into a foundation; every       *)
(* iteration of a search takes one node out of the frontier for good and   *)
(* puts in only search states not recorded before, so that each is         *)
(* expanded at most once (the iterations of a variant are looked at in the *)
(* steps it takes before the others have started, its iterations being the *)
(* same in every interleaving); and eventually main is past the end of the *)
(* race, every variant having returned with a path to a terminal board or  *)
(* with its frontier exhausted.                                            *)
C27_Termination ==
    /\ [][(pc = "parsed" /\ pc' /= "parsed") => CascadeTerminates(board, board')]_vars
    /\ [][searches /= <<>> =>
            \A k \in Variants :
               (searches'[k] /= searches[k] /\ OthersAtStart(k)) =>
                  /\ \/ searches'[k].status /= "running"
                     \/ NumExpanded(searches'[k]) = NumExpanded(searches[k]) + 1
                  /\ \A h \in searches'[k].to_see \ searches[k].to_see :
                        h.index >= Len(searches[k].parents)
                  /\ FreshFrom(searches'[k], Len(searches[k].parents) + 1)
                  /\ \A i \in (Len(searches[k].parents) + 1)
                                 ..Len(searches'[k].parents) :
                        LET new == searches'[k].parents[i]
                            from == searches[k].parents[new.parent + 1].node.board
                        IN  CascadeTerminates(Manual(from, new.node.move[1]),
                                              new.node.board)]_vars
    /\ <>(/\ pc \in {"done", "panic"}
          /\ searches /= <<>>
          /\ \A k \in Variants :
                \/ /\ searches[k].status = "found"
                   /\ is_done(Last(searches[k].path).board)
                \/ /\ searches[k].status = "exhausted"
                   /\ searches[k].to_see = {})

\* the race is over on a deal whose initial cascade took three passes, and
\* on a deal where a variant expanded several nodes before it returned
C27_Witness ==
    /\ pc \in {"done", "panic"}
    /\ searches /= <<>>
    /\ \/ Len(Passes(deal)) >= 3
       \/ \E k \in Variants :
             /\ searches[k].status = "found"
             /\ NumExpanded(searches[k]) >= 3

----------------------------------------------------------------------------
(* C28. No internal invariant violation.                                   *)

\* the manual action of move m starts from a card that is there: the
\* exposed card of a pile that is not empty, or the card in the slot
TakesWhatIsThere(b, m) ==
    IF m.from.kind = "PlayingArea"
    THEN /\ b.playing_area[m.from.pile + 1] /= <<>>
         /\ m.card = Last(b.playing_area[m.from.pile + 1])
         /\ m.from.depth = Len(b.playing_area[m.from.pile + 1]) - 1
    ELSE b.minor_collection_blocked = Some(m.card)

(* C28: in the play-outs from the deals, no cascade reaches an unwrap() of *)
(* None (a pop of an empty tableau pile, the top of an empty suit          *)
(* foundation), neither the initial one nor the one of any pair the Move   *)
(* Generator returns; every move the Move Generator returns takes the      *)
(* exposed card of a pile that is not empty, or the card that is in the    *)
(* holding slot; and every suit foundation of every board holds at least   *)
(* its ace.                                                                *)
C28_NoInternalViolation ==
    [](  /\ pc /= "panic"
         /\ \A k \in 1..NUM_SUITS :
               /\ board.minor_collection_piles[k] /= <<>>
               /\ board.minor_collection_piles[k][1] = Minor(Suits[k], 1)
         /\ pc = "parsed" => ~suck_readies_into_receptacles(board).panic
         /\ pc = "cascaded" =>
               \A e \in Generated :
                  /\ ~e.panic
                  /\ TakesWhatIsThere(board, e.move)
                  /\ \A k \in 1..NUM_SUITS :
                        e.board.minor_collection_piles[k] /= <<>>  )

\* after two moves or more the last cascade has advanced two cards or more
\* and emptied a pile of the deal, and the Move Generator returns a hold, a
\* pile-to-pile move or a release from the board
C28_Witness ==
    /\ pc = "cascaded"
    /\ nmoves >= 2
    /\ Head(board.last_n_moves).num_sucks >= 2
    /\ \E i \in DOMAIN board.playing_area :
          board.playing_area[i] = <<>> /\ deal.playing_area[i] /= <<>>
    /\ Generated /= {}

====
